---- MODULE Spec2Model ----
(***************************************************************************)
(* LendingEscrow (first definition, 5-argument createListing) over the     *)
(* SubscriptionToken unit ledger.  Every external call is one atomic       *)
(* action: a call that reverts leaves every variable as it was, and the    *)
(* reason of the revert is the value of the call's ...Error operator.      *)
(* Time is counted in days (minRentalDuration = 1 days is 1).  The field   *)
(* Listing.createdAt is written once and never read; it is left out.       *)
(* Spec and SpecTerms run the five entry points, SpecAdmin and SpecOwner   *)
(* add the owner's calls, SpecLimits the global duration limits, SpecWord  *)
(* prices at the edge of the word, SpecPayee accounts that refuse          *)
(* currency; SpecReentry splits the calls whose unit transfer runs a       *)
(* recipient's callback and lets the recipient call back in.               *)
(* SpecProrated runs the second definition of LendingEscrow (3-argument    *)
(* createListing, endSession of the borrower or the owner with proration)  *)
(* over the same variables; it leaves the pause flag, the duration limits  *)
(* and the whitelist, which it does not have, at their initial values.     *)
(***************************************************************************)
EXTENDS Integers, Sequences, FiniteSets, TLC

\* ------------------------------------------------------------------ bounds
MaxListings == 2
MaxSessions == 2
MaxUnits == 2
MaxPrice == 3
MaxDuration == 2
MaxTime == 2
MaxOffers == 1
WordBits == 24

\* --------------------------------------------------------- program constants
BASIS_POINTS == 10000
InitialMinRentalDuration == 1
InitialMaxRentalDuration == 365

\* ------------------------------------------------------------------ universe
Escrow == "escrow"
ZeroAddress == "0x0"
Owner == "owner"
Users == {"alice", "bob"}
Holders == Users \cup {Owner, Escrow}
TokenIds == {1}
ListingIds == 1..MaxListings
SessionIds == 1..MaxSessions
UINT_MAX == 2^WordBits - 1
InitialFees == {2500}
Token == "token"
\* Fees an administrator asks for: none, the largest allowed, 100% and beyond.
FeeChoices == {0, BASIS_POINTS - 1, BASIS_POINTS, BASIS_POINTS + 1}
\* Accounts that try the administrative entry points.
AdminCallers == {Owner, "bob"}
\* Other token contracts whose assets were sent to the engine by mistake.
StrayERC20 == "erc20"
StrayERC1155 == "erc1155"
ForeignTokens == {StrayERC20, StrayERC1155}
ERC1155Contracts == {Token, StrayERC1155}

VARIABLES
    balances,           \* ledger: holder -> units of the batch
    approved,           \* users that approved the engine as operator
    listings,           \* mapping(uint256 => Listing)
    sessions,           \* mapping(uint256 => Session)
    listingCounter,
    sessionCounter,
    userListings,       \* mapping(address => uint256[])
    userSessions,       \* mapping(address => uint256[])
    platformFee,
    platformWallet,
    minRentalDuration,
    maxRentalDuration,
    paused,
    now,                \* block.timestamp
    eth,                \* currency balance of every account
    owner,              \* Ownable: the current owner
    whitelistedTokens,  \* mapping(address => bool), over the ERC1155 contracts
    foreign,            \* assets of other token contracts: contract -> holder -> amount
    refusing,           \* accounts whose code reverts when currency is sent to them
    emitted,            \* the SessionEnded record of the last closure (second definition)
    entered,            \* ReentrancyGuard: _status == _ENTERED
    frame               \* the call that is waiting for a recipient's callback

ledgerVars == <<balances, approved>>
bookVars == <<listings, sessions, listingCounter, sessionCounter, userListings, userSessions>>
envVars == <<refusing, emitted>>
adminVars == <<owner, whitelistedTokens, foreign, envVars>>
configVars == <<platformFee, platformWallet, minRentalDuration, maxRentalDuration, paused,
                adminVars>>
vars == <<balances, approved, listings, sessions, listingCounter, sessionCounter,
          userListings, userSessions, platformFee, platformWallet,
          minRentalDuration, maxRentalDuration, paused, now, eth, entered, frame,
          owner, whitelistedTokens, foreign, refusing, emitted>>
callVars == <<entered, frame>>

\* ------------------------------------------------------------------ records
EmptyListing ==
    [lender |-> ZeroAddress, tokenId |-> 0, pricePerUnit |-> 0, availableUnits |-> 0,
     totalUnits |-> 0, minDuration |-> 0, maxDuration |-> 0, isActive |-> FALSE]

\* Nothing has been emitted.
NoEvent == [event |-> "none", sessionId |-> 0, completed |-> FALSE]

\* No call is waiting for a callback.
NoFrame == [op |-> "none", recipient |-> ZeroAddress, listingId |-> 0, sessionId |-> 0]

EmptySession ==
    [borrower |-> ZeroAddress, listingId |-> 0, units |-> 0, startTime |-> 0,
     endTime |-> 0, totalPaid |-> 0, isActive |-> FALSE]

\* ------------------------------------------------------------------- ledger
\* safeTransferFrom as the engine calls it: the engine is the operator.
TransferError(from, tokenId, amount) ==
    IF from # Escrow /\ from \notin approved THEN "Unauthorized"
    ELSE IF tokenId \notin TokenIds \/ balances[from][tokenId] < amount
         THEN "InsufficientBalance"
    ELSE ""

\* Mutant: the transfer credits the recipient without debiting the sender.
MovedMint(bal, from, to, tokenId, amount) ==
    [bal EXCEPT ![to][tokenId] = @ + amount]

Moved(bal, from, to, tokenId, amount) ==
    [[bal EXCEPT ![from][tokenId] = @ - amount] EXCEPT ![to][tokenId] = @ + amount]

\* uint256 arithmetic of Solidity 0.8: a product above the word size panics.
MulOverflows(a, b) == b # 0 /\ a > UINT_MAX \div b

\* -------------------------------------------------------------- deployment
ConstructorError(subscriptionToken, wallet, fee) ==
    IF subscriptionToken = ZeroAddress THEN "Invalid token address"
    ELSE IF wallet = ZeroAddress THEN "Invalid platform wallet"
    ELSE IF ~(fee < BASIS_POINTS) THEN "Fee too high"
    ELSE ""

\* -------------------------------------------------------------------- state
\* Units minted to their creators before the engine is used.
InitialUnits(h, t) ==
    IF h = "alice" /\ t = 1 THEN MaxUnits ELSE 0

\* Currency every user starts with: enough to pay for every session.
InitialEth == MaxSessions * (MaxPrice * MaxUnits * MaxDuration + 1)

\* Every user holds the same amount of currency, the other accounts none.
Funded(amount) == [h \in Holders |-> IF h \in Users THEN amount ELSE 0]

\* What both definitions of the engine start from.
InitShared ==
    /\ balances = [h \in Holders |-> [t \in TokenIds |-> InitialUnits(h, t)]]
    /\ listingCounter = 0
    /\ sessionCounter = 0
    /\ userListings = [u \in Users |-> <<>>]
    /\ userSessions = [u \in Users |-> <<>>]
    /\ platformFee \in {f \in InitialFees : ConstructorError(Token, "owner", f) = ""}
    /\ platformWallet = "owner"
    /\ minRentalDuration = InitialMinRentalDuration
    /\ maxRentalDuration = InitialMaxRentalDuration
    /\ paused = FALSE
    /\ now = 0
    /\ entered = FALSE
    /\ frame = NoFrame
    /\ owner = Owner
    /\ whitelistedTokens = [k \in ERC1155Contracts |-> k = Token]
    /\ foreign = [k \in ForeignTokens |-> [h \in Holders |-> IF h = Escrow THEN 1 ELSE 0]]
    /\ emitted = NoEvent

\* The first definition's empty mappings.
InitBase ==
    /\ InitShared
    /\ listings = [l \in ListingIds |-> EmptyListing]
    /\ sessions = [s \in SessionIds |-> EmptySession]

\* Every user has approved the engine as operator of its units.
Init == InitBase /\ approved = Users /\ eth = Funded(InitialEth) /\ refusing = {}

\* No user has approved the engine yet.
InitTerms == InitBase /\ approved = {} /\ eth = Funded(InitialEth) /\ refusing = {}

\* Users that can pay any amount a word holds.
InitWord == InitBase /\ approved = Users /\ eth = Funded(UINT_MAX) /\ refusing = {}

\* Which accounts revert on receiving currency: none, a user, the deployer.
Refusers == {{}, {"alice"}, {"bob"}, {Owner}}

\* One of the accounts may be a contract that does not take currency.
InitPayee ==
    InitBase /\ approved = Users /\ eth = Funded(InitialEth) /\ refusing \in Refusers

\* ----------------------------------------------------------- ledger actions
SetApprovalForAll(user, flag) ==
    /\ approved' = IF flag THEN approved \cup {user} ELSE approved \ {user}
    /\ UNCHANGED <<balances, bookVars, configVars, now, eth, callVars>>

\* ----------------------------------------------------------- engine actions
Revert == UNCHANGED vars

\* Mutant: the listing is recorded without pulling the units into escrow.
CreateListingErrorNoPull(caller, tokenId, pricePerUnit, units, minDuration, maxDuration) ==
    IF paused THEN "Pausable: paused"
    ELSE IF ~(units > 0) THEN "Must list at least one unit"
    ELSE IF ~(pricePerUnit > 0) THEN "Price must be greater than 0"
    ELSE IF ~(minDuration >= minRentalDuration) THEN "Duration below minimum"
    ELSE IF ~(maxDuration <= maxRentalDuration) THEN "Duration exceeds maximum"
    ELSE IF ~(minDuration <= maxDuration) THEN "Invalid duration range"
    ELSE ""

\* Mutant: the range is compared with the global minimum alone.
CreateListingErrorNoCeiling(caller, tokenId, pricePerUnit, units, minDuration, maxDuration) ==
    IF paused THEN "Pausable: paused"
    ELSE IF ~(units > 0) THEN "Must list at least one unit"
    ELSE IF ~(pricePerUnit > 0) THEN "Price must be greater than 0"
    ELSE IF ~(minDuration >= minRentalDuration) THEN "Duration below minimum"
    ELSE IF ~(minDuration <= maxDuration) THEN "Invalid duration range"
    ELSE TransferError(caller, tokenId, units)

CreateListingError(caller, tokenId, pricePerUnit, units, minDuration, maxDuration) ==
    IF paused THEN "Pausable: paused"
    ELSE IF ~(units > 0) THEN "Must list at least one unit"
    ELSE IF ~(pricePerUnit > 0) THEN "Price must be greater than 0"
    ELSE IF ~(minDuration >= minRentalDuration) THEN "Duration below minimum"
    ELSE IF ~(maxDuration <= maxRentalDuration) THEN "Duration exceeds maximum"
    ELSE IF ~(minDuration <= maxDuration) THEN "Invalid duration range"
    ELSE TransferError(caller, tokenId, units)

\* Mutant: the listing is stored under the counter's value before the
\* increment is kept, so the counter stays and the next listing takes the id.
CreateListingReusesId(caller, tokenId, pricePerUnit, units, minDuration, maxDuration) ==
    LET err == CreateListingError(caller, tokenId, pricePerUnit, units, minDuration, maxDuration)
        listingId == IF listingCounter = 0 THEN 1 ELSE listingCounter
    IN  IF err # ""
           THEN Revert
           ELSE /\ balances' = Moved(balances, caller, Escrow, tokenId, units)
                /\ listingCounter' = listingId
                /\ listings' = [listings EXCEPT ![listingId] =
                       [lender |-> caller, tokenId |-> tokenId,
                        pricePerUnit |-> pricePerUnit, availableUnits |-> units,
                        totalUnits |-> units, minDuration |-> minDuration,
                        maxDuration |-> maxDuration, isActive |-> TRUE]]
                /\ userListings' = [userListings EXCEPT ![caller] = Append(@, listingId)]
                /\ UNCHANGED <<approved, sessions, sessionCounter, userSessions,
                               configVars, now, eth, callVars>>

CreateListing(caller, tokenId, pricePerUnit, units, minDuration, maxDuration) ==
    LET err == CreateListingError(caller, tokenId, pricePerUnit, units, minDuration, maxDuration)
        listingId == listingCounter + 1
    IN  IF err # ""
           THEN Revert
           ELSE /\ balances' = Moved(balances, caller, Escrow, tokenId, units)
                /\ listingCounter' = listingId
                /\ listings' = [listings EXCEPT ![listingId] =
                       [lender |-> caller, tokenId |-> tokenId,
                        pricePerUnit |-> pricePerUnit, availableUnits |-> units,
                        totalUnits |-> units, minDuration |-> minDuration,
                        maxDuration |-> maxDuration, isActive |-> TRUE]]
                /\ userListings' = [userListings EXCEPT ![caller] = Append(@, listingId)]
                /\ UNCHANGED <<approved, sessions, sessionCounter, userSessions,
                               configVars, now, eth, callVars>>

RentedUnits(listing) == listing.totalUnits - listing.availableUnits

\* Mutant: updateListing has no onlyLender.
UpdateListingErrorAnyCaller(caller, listingId, newPricePerUnit, newAvailableUnits, newMinDuration, newMaxDuration) ==
    LET listing == listings[listingId] IN
    IF ~listing.isActive THEN "Listing not active"
    ELSE IF paused THEN "Pausable: paused"
    ELSE IF ~(newPricePerUnit > 0) THEN "Price must be greater than 0"
    ELSE IF ~(newMinDuration >= minRentalDuration) THEN "Duration below minimum"
    ELSE IF ~(newMaxDuration <= maxRentalDuration) THEN "Duration exceeds maximum"
    ELSE IF ~(newMinDuration <= newMaxDuration) THEN "Invalid duration range"
    ELSE IF ~(newAvailableUnits >= RentedUnits(listing))
         THEN "Cannot have fewer units than currently rented"
    ELSE IF newAvailableUnits > listing.totalUnits
         THEN TransferError(caller, listing.tokenId, newAvailableUnits - listing.totalUnits)
    ELSE ""

\* Mutant: the new total is not compared with the rented quantity.
UpdateListingErrorNoFloor(caller, listingId, newPricePerUnit, newAvailableUnits, newMinDuration, newMaxDuration) ==
    LET listing == listings[listingId] IN
    IF listing.lender # caller THEN "Not the lender"
    ELSE IF ~listing.isActive THEN "Listing not active"
    ELSE IF paused THEN "Pausable: paused"
    ELSE IF ~(newPricePerUnit > 0) THEN "Price must be greater than 0"
    ELSE IF ~(newMinDuration >= minRentalDuration) THEN "Duration below minimum"
    ELSE IF ~(newMaxDuration <= maxRentalDuration) THEN "Duration exceeds maximum"
    ELSE IF ~(newMinDuration <= newMaxDuration) THEN "Invalid duration range"
    ELSE IF newAvailableUnits > listing.totalUnits
         THEN TransferError(caller, listing.tokenId, newAvailableUnits - listing.totalUnits)
    ELSE ""

\* Mutant: updateListing carries onlyLender but not onlyActiveListing.
UpdateListingErrorAnyState(caller, listingId, newPricePerUnit, newAvailableUnits, newMinDuration, newMaxDuration) ==
    LET listing == listings[listingId] IN
    IF listing.lender # caller THEN "Not the lender"
    ELSE IF paused THEN "Pausable: paused"
    ELSE IF ~(newPricePerUnit > 0) THEN "Price must be greater than 0"
    ELSE IF ~(newMinDuration >= minRentalDuration) THEN "Duration below minimum"
    ELSE IF ~(newMaxDuration <= maxRentalDuration) THEN "Duration exceeds maximum"
    ELSE IF ~(newMinDuration <= newMaxDuration) THEN "Invalid duration range"
    ELSE IF ~(newAvailableUnits >= RentedUnits(listing))
         THEN "Cannot have fewer units than currently rented"
    ELSE IF newAvailableUnits > listing.totalUnits
         THEN TransferError(caller, listing.tokenId, newAvailableUnits - listing.totalUnits)
    ELSE ""

UpdateListingError(caller, listingId, newPricePerUnit, newAvailableUnits, newMinDuration, newMaxDuration) ==
    LET listing == listings[listingId] IN
    IF listing.lender # caller THEN "Not the lender"
    ELSE IF ~listing.isActive THEN "Listing not active"
    ELSE IF paused THEN "Pausable: paused"
    ELSE IF ~(newPricePerUnit > 0) THEN "Price must be greater than 0"
    ELSE IF ~(newMinDuration >= minRentalDuration) THEN "Duration below minimum"
    ELSE IF ~(newMaxDuration <= maxRentalDuration) THEN "Duration exceeds maximum"
    ELSE IF ~(newMinDuration <= newMaxDuration) THEN "Invalid duration range"
    ELSE IF ~(newAvailableUnits >= RentedUnits(listing))
         THEN "Cannot have fewer units than currently rented"
    ELSE IF newAvailableUnits > listing.totalUnits
         THEN TransferError(caller, listing.tokenId, newAvailableUnits - listing.totalUnits)
    ELSE ""

\* Mutant: the update advertises every unit, the rented ones included.
ListingAfterUpdateAllAvailable(listing, newPricePerUnit, newAvailableUnits, newMinDuration, newMaxDuration) ==
    [listing EXCEPT !.pricePerUnit = newPricePerUnit,
                    !.availableUnits = newAvailableUnits,
                    !.totalUnits = newAvailableUnits,
                    !.minDuration = newMinDuration,
                    !.maxDuration = newMaxDuration]

ListingAfterUpdate(listing, newPricePerUnit, newAvailableUnits, newMinDuration, newMaxDuration) ==
    [listing EXCEPT !.pricePerUnit = newPricePerUnit,
                    !.availableUnits = newAvailableUnits - RentedUnits(listing),
                    !.totalUnits = newAvailableUnits,
                    !.minDuration = newMinDuration,
                    !.maxDuration = newMaxDuration]

\* Mutant: a larger total is recorded without pulling units from the lender.
UpdateListingNoPull(caller, listingId, newPricePerUnit, newAvailableUnits, newMinDuration, newMaxDuration) ==
    LET err == UpdateListingError(caller, listingId, newPricePerUnit, newAvailableUnits,
                                  newMinDuration, newMaxDuration)
        listing == listings[listingId]
    IN  IF err # ""
        THEN Revert
        ELSE /\ listings' = [listings EXCEPT ![listingId] =
                    ListingAfterUpdate(listing, newPricePerUnit, newAvailableUnits,
                                       newMinDuration, newMaxDuration)]
             /\ UNCHANGED <<balances, approved, sessions, listingCounter, sessionCounter,
                            userListings, userSessions, configVars, now, eth, callVars>>

UpdateListing(caller, listingId, newPricePerUnit, newAvailableUnits, newMinDuration, newMaxDuration) ==
    LET err == UpdateListingError(caller, listingId, newPricePerUnit, newAvailableUnits,
                                  newMinDuration, newMaxDuration)
        listing == listings[listingId]
    IN  IF err # ""
        THEN Revert
        ELSE /\ balances' = IF newAvailableUnits > listing.totalUnits
                            THEN Moved(balances, caller, Escrow, listing.tokenId,
                                       newAvailableUnits - listing.totalUnits)
                            ELSE balances
             /\ listings' = [listings EXCEPT ![listingId] =
                    ListingAfterUpdate(listing, newPricePerUnit, newAvailableUnits,
                                       newMinDuration, newMaxDuration)]
             /\ UNCHANGED <<approved, sessions, listingCounter, sessionCounter,
                            userListings, userSessions, configVars, now, eth, callVars>>

\* Mutant: cancelListing carries whenNotPaused, as updateListing does.
CancelListingErrorPausable(caller, listingId) ==
    LET listing == listings[listingId] IN
    IF listing.lender # caller THEN "Not the lender"
    ELSE IF ~listing.isActive THEN "Listing not active"
    ELSE IF paused THEN "Pausable: paused"
    ELSE IF listing.availableUnits > 0
         THEN TransferError(Escrow, listing.tokenId, listing.availableUnits)
    ELSE ""

CancelListingError(caller, listingId) ==
    LET listing == listings[listingId] IN
    IF listing.lender # caller THEN "Not the lender"
    ELSE IF ~listing.isActive THEN "Listing not active"
    ELSE IF listing.availableUnits > 0
         THEN TransferError(Escrow, listing.tokenId, listing.availableUnits)
    ELSE ""

\* Mutant: the cancel hands back every unit of the listing, rented ones too.
CancelListingReturnsAll(caller, listingId) ==
    LET err == CancelListingError(caller, listingId)
        listing == listings[listingId]
    IN  IF err # ""
        THEN Revert
        ELSE /\ listings' = [listings EXCEPT ![listingId].isActive = FALSE]
             /\ balances' = Moved(balances, Escrow, caller, listing.tokenId,
                                  listing.totalUnits)
             /\ UNCHANGED <<approved, sessions, listingCounter, sessionCounter,
                            userListings, userSessions, configVars, now, eth, callVars>>

CancelListing(caller, listingId) ==
    LET err == CancelListingError(caller, listingId)
        listing == listings[listingId]
    IN  IF err # ""
        THEN Revert
        ELSE /\ listings' = [listings EXCEPT ![listingId].isActive = FALSE]
             /\ balances' = IF listing.availableUnits > 0
                            THEN Moved(balances, Escrow, caller, listing.tokenId,
                                       listing.availableUnits)
                            ELSE balances
             /\ UNCHANGED <<approved, sessions, listingCounter, sessionCounter,
                            userListings, userSessions, configVars, now, eth, callVars>>

Credited(e, account, amount) == [e EXCEPT ![account] = @ + amount]

\* A currency transfer of amount between two accounts.
Paid(e, from, to, amount) == Credited(Credited(e, from, 0 - amount), to, amount)

\* Mutant: a transfer that fails is passed over.
SendErrorIgnored(to) == ""

\* payable(to).transfer(amount) reverts when the recipient does not take it.
SendError(to) == IF to \in refusing THEN "Transfer reverted" ELSE ""

\* Mutant: what is paid above the cost stays with the engine.
RefundNone(value, totalCost) == 0

\* What goes back to the borrower: msg.value - totalCost when positive.
Refund(value, totalCost) == IF value > totalCost THEN value - totalCost ELSE 0

\* Mutant: the product is computed unchecked.
TotalCostOverflowsNever(listing, units, duration) == FALSE

\* listing.pricePerUnit * units * duration, left to right, panics when a
\* product passes the word size.
TotalCostOverflows(listing, units, duration) ==
    \/ MulOverflows(listing.pricePerUnit, units)
    \/ MulOverflows(listing.pricePerUnit * units, duration)

\* The value of the uint256 expression: the product within the word.
TotalCost(listing, units, duration) ==
    (listing.pricePerUnit * units * duration) % (UINT_MAX + 1)

\* Mutant: the fee is rounded up.
FeeAmountRoundedUp(totalCost) == (totalCost * platformFee + BASIS_POINTS - 1) \div BASIS_POINTS

FeeAmount(totalCost) == (totalCost * platformFee) \div BASIS_POINTS

\* Mutant: the listing's availability is not lowered.
ListingAfterStartStale(listing, units) == listing

ListingAfterStart(listing, units) == [listing EXCEPT !.availableUnits = @ - units]

\* Mutant: the request is not compared with the listing's availability.
StartSessionErrorAnyUnits(caller, listingId, units, duration, value) ==
    LET listing == listings[listingId] IN
    IF entered THEN "ReentrancyGuard: reentrant call"
    ELSE IF paused THEN "Pausable: paused"
    ELSE IF ~listing.isActive THEN "Listing not active"
    ELSE IF ~(units > 0) THEN "Must rent at least one unit"
    ELSE IF ~(duration >= listing.minDuration) THEN "Duration below minimum"
    ELSE IF ~(duration <= listing.maxDuration) THEN "Duration exceeds maximum"
    ELSE IF ~(value >= TotalCost(listing, units, duration)) THEN "Insufficient payment"
    ELSE TransferError(Escrow, listing.tokenId, units)

\* Mutant: a payment one currency unit short is accepted.
StartSessionErrorOneShort(caller, listingId, units, duration, value) ==
    LET listing == listings[listingId] IN
    IF entered THEN "ReentrancyGuard: reentrant call"
    ELSE IF paused THEN "Pausable: paused"
    ELSE IF ~listing.isActive THEN "Listing not active"
    ELSE IF ~(units > 0) THEN "Must rent at least one unit"
    ELSE IF ~(units <= listing.availableUnits) THEN "Not enough units available"
    ELSE IF ~(duration >= listing.minDuration) THEN "Duration below minimum"
    ELSE IF ~(duration <= listing.maxDuration) THEN "Duration exceeds maximum"
    ELSE IF ~(value + 1 >= TotalCost(listing, units, duration)) THEN "Insufficient payment"
    ELSE TransferError(Escrow, listing.tokenId, units)

\* Mutant: the duration is compared with the listing's minimum alone.
StartSessionErrorNoMax(caller, listingId, units, duration, value) ==
    LET listing == listings[listingId] IN
    IF entered THEN "ReentrancyGuard: reentrant call"
    ELSE IF paused THEN "Pausable: paused"
    ELSE IF ~listing.isActive THEN "Listing not active"
    ELSE IF ~(units > 0) THEN "Must rent at least one unit"
    ELSE IF ~(units <= listing.availableUnits) THEN "Not enough units available"
    ELSE IF ~(duration >= listing.minDuration) THEN "Duration below minimum"
    ELSE IF ~(value >= listing.pricePerUnit * units * duration) THEN "Insufficient payment"
    ELSE ""

StartSessionError(caller, listingId, units, duration, value) ==
    LET listing == listings[listingId] IN
    IF entered THEN "ReentrancyGuard: reentrant call"
    ELSE IF paused THEN "Pausable: paused"
    ELSE IF ~listing.isActive THEN "Listing not active"
    ELSE IF ~(units > 0) THEN "Must rent at least one unit"
    ELSE IF ~(units <= listing.availableUnits) THEN "Not enough units available"
    ELSE IF ~(duration >= listing.minDuration) THEN "Duration below minimum"
    ELSE IF ~(duration <= listing.maxDuration) THEN "Duration exceeds maximum"
    ELSE IF TotalCostOverflows(listing, units, duration) THEN "Panic: overflow"
    ELSE IF ~(value >= TotalCost(listing, units, duration)) THEN "Insufficient payment"
    ELSE IF MulOverflows(TotalCost(listing, units, duration), platformFee)
         THEN "Panic: overflow"
    ELSE IF SendError(listing.lender) # "" THEN SendError(listing.lender)
    ELSE IF FeeAmount(TotalCost(listing, units, duration)) > 0
            /\ SendError(platformWallet) # "" THEN SendError(platformWallet)
    ELSE IF value > TotalCost(listing, units, duration)
            /\ SendError(caller) # "" THEN SendError(caller)
    ELSE IF now + duration > UINT_MAX THEN "Panic: overflow"
    ELSE TransferError(Escrow, listing.tokenId, units)

StartSession(caller, listingId, units, duration, value) ==
    LET err == StartSessionError(caller, listingId, units, duration, value)
        listing == listings[listingId]
        totalCost == TotalCost(listing, units, duration)
        feeAmount == FeeAmount(totalCost)
        lenderAmount == totalCost - feeAmount
        sessionId == sessionCounter + 1
        startTime == now
        endTime == startTime + duration
    IN  /\ value <= eth[caller]
        /\ IF err # ""
           THEN Revert
           ELSE /\ sessionCounter' = sessionId
                /\ sessions' = [sessions EXCEPT ![sessionId] =
                       [borrower |-> caller, listingId |-> listingId, units |-> units,
                        startTime |-> startTime, endTime |-> endTime,
                        totalPaid |-> totalCost, isActive |-> TRUE]]
                /\ listings' = [listings EXCEPT ![listingId] = ListingAfterStart(listing, units)]
                /\ balances' = Moved(balances, Escrow, caller, listing.tokenId, units)
                /\ userSessions' = [userSessions EXCEPT ![caller] = Append(@, sessionId)]
                /\ eth' = Paid(Paid(Paid(Paid(eth,
                               caller, Escrow, value),
                               Escrow, listing.lender, lenderAmount),
                               Escrow, platformWallet, feeAmount),
                               Escrow, caller, Refund(value, totalCost))
                /\ UNCHANGED <<approved, listingCounter, userListings, configVars, now,
                               callVars>>

\* Mutant: the returned units are not made available again.
ListingAfterEndStale(listing, units) == listing

ListingAfterEnd(listing, units) ==
    IF listing.isActive THEN [listing EXCEPT !.availableUnits = @ + units] ELSE listing

\* Mutant: onlyActiveSession tests that the session exists, not that it is open.
EndSessionErrorRepeat(caller, sessionId) ==
    LET session == sessions[sessionId] IN
    IF entered THEN "ReentrancyGuard: reentrant call"
    ELSE IF session.borrower = ZeroAddress THEN "Session not active"
    ELSE IF ~(now >= session.endTime) THEN "Session not yet ended"
    ELSE TransferError(caller, listings[session.listingId].tokenId, session.units)

EndSessionError(caller, sessionId) ==
    LET session == sessions[sessionId] IN
    IF entered THEN "ReentrancyGuard: reentrant call"
    ELSE IF ~session.isActive THEN "Session not active"
    ELSE IF ~(now >= session.endTime) THEN "Session not yet ended"
    ELSE TransferError(caller, listings[session.listingId].tokenId, session.units)

\* Mutant: closing deletes the session record.
EndSessionDeletes(caller, sessionId) ==
    LET err == EndSessionError(caller, sessionId)
        session == sessions[sessionId]
        listing == listings[session.listingId]
    IN  IF err # ""
        THEN Revert
        ELSE /\ sessions' = [sessions EXCEPT ![sessionId] = EmptySession]
             /\ balances' = Moved(balances, caller, listing.lender, listing.tokenId,
                                  session.units)
             /\ listings' = [listings EXCEPT ![session.listingId] =
                                 ListingAfterEnd(listing, session.units)]
             /\ UNCHANGED <<approved, listingCounter, sessionCounter, userListings,
                            userSessions, configVars, now, eth, callVars>>

EndSession(caller, sessionId) ==
    LET err == EndSessionError(caller, sessionId)
        session == sessions[sessionId]
        listing == listings[session.listingId]
    IN  IF err # ""
        THEN Revert
        ELSE /\ sessions' = [sessions EXCEPT ![sessionId].isActive = FALSE]
             /\ balances' = Moved(balances, caller, listing.lender, listing.tokenId,
                                  session.units)
             /\ listings' = [listings EXCEPT ![session.listingId] =
                                 ListingAfterEnd(listing, session.units)]
             /\ UNCHANGED <<approved, listingCounter, sessionCounter, userListings,
                            userSessions, configVars, now, eth, callVars>>

\* ----------------------------------------------------- administrative calls
\* Mutant: onlyOwner lets every caller through.
OnlyOwnerErrorAnyone(caller) == ""

OnlyOwnerError(caller) ==
    IF caller # owner THEN "Ownable: caller is not the owner" ELSE ""

\* Mutant: a fee of exactly 100% is accepted.
UpdatePlatformFeeErrorInclusive(caller, newFee) ==
    IF OnlyOwnerError(caller) # "" THEN OnlyOwnerError(caller)
    ELSE IF ~(newFee <= BASIS_POINTS) THEN "Fee too high"
    ELSE ""

UpdatePlatformFeeError(caller, newFee) ==
    IF OnlyOwnerError(caller) # "" THEN OnlyOwnerError(caller)
    ELSE IF ~(newFee < BASIS_POINTS) THEN "Fee too high"
    ELSE ""

UpdatePlatformFee(caller, newFee) ==
    IF UpdatePlatformFeeError(caller, newFee) # ""
    THEN Revert
    ELSE /\ platformFee' = newFee
         /\ UNCHANGED <<ledgerVars, bookVars, platformWallet, minRentalDuration,
                        maxRentalDuration, paused, adminVars, now, eth, callVars>>

PauseError(caller) ==
    IF OnlyOwnerError(caller) # "" THEN OnlyOwnerError(caller)
    ELSE IF paused THEN "Pausable: paused"
    ELSE ""

Pause(caller) ==
    IF PauseError(caller) # ""
    THEN Revert
    ELSE /\ paused' = TRUE
         /\ UNCHANGED <<ledgerVars, bookVars, platformFee, platformWallet,
                        minRentalDuration, maxRentalDuration, adminVars, now, eth, callVars>>

UnpauseError(caller) ==
    IF OnlyOwnerError(caller) # "" THEN OnlyOwnerError(caller)
    ELSE IF ~paused THEN "Pausable: not paused"
    ELSE ""

Unpause(caller) ==
    IF UnpauseError(caller) # ""
    THEN Revert
    ELSE /\ paused' = FALSE
         /\ UNCHANGED <<ledgerVars, bookVars, platformFee, platformWallet,
                        minRentalDuration, maxRentalDuration, adminVars, now, eth, callVars>>

\* emergencyStop is pause under another name.
EmergencyStopError(caller) ==
    IF OnlyOwnerError(caller) # "" THEN OnlyOwnerError(caller)
    ELSE IF paused THEN "Pausable: paused"
    ELSE ""

EmergencyStop(caller) ==
    IF EmergencyStopError(caller) # ""
    THEN Revert
    ELSE /\ paused' = TRUE
         /\ UNCHANGED <<ledgerVars, bookVars, platformFee, platformWallet,
                        minRentalDuration, maxRentalDuration, adminVars, now, eth, callVars>>

UpdatePlatformWalletError(caller, newWallet) ==
    IF OnlyOwnerError(caller) # "" THEN OnlyOwnerError(caller)
    ELSE IF newWallet = ZeroAddress THEN "Invalid address"
    ELSE ""

UpdatePlatformWallet(caller, newWallet) ==
    IF UpdatePlatformWalletError(caller, newWallet) # ""
    THEN Revert
    ELSE /\ platformWallet' = newWallet
         /\ UNCHANGED <<ledgerVars, bookVars, platformFee, minRentalDuration,
                        maxRentalDuration, paused, adminVars, now, eth, callVars>>

\* Mutant: a minimum of zero is accepted.
UpdateRentalDurationLimitsErrorZeroMin(caller, min, max) ==
    IF OnlyOwnerError(caller) # "" THEN OnlyOwnerError(caller)
    ELSE IF ~(max > min) THEN "Max must be greater than min"
    ELSE ""

UpdateRentalDurationLimitsError(caller, min, max) ==
    IF OnlyOwnerError(caller) # "" THEN OnlyOwnerError(caller)
    ELSE IF ~(min > 0) THEN "Minimum duration must be greater than 0"
    ELSE IF ~(max > min) THEN "Max must be greater than min"
    ELSE ""

UpdateRentalDurationLimits(caller, min, max) ==
    IF UpdateRentalDurationLimitsError(caller, min, max) # ""
    THEN Revert
    ELSE /\ minRentalDuration' = min
         /\ maxRentalDuration' = max
         /\ UNCHANGED <<ledgerVars, bookVars, platformFee, platformWallet, paused,
                        adminVars, now, eth, callVars>>

SetWhitelistedTokenError(caller, token, whitelisted) == OnlyOwnerError(caller)

SetWhitelistedToken(caller, token, whitelisted) ==
    IF SetWhitelistedTokenError(caller, token, whitelisted) # ""
    THEN Revert
    ELSE /\ whitelistedTokens' = [whitelistedTokens EXCEPT ![token] = whitelisted]
         /\ UNCHANGED <<ledgerVars, bookVars, platformFee, platformWallet,
                        minRentalDuration, maxRentalDuration, paused, owner, foreign,
                        now, eth, callVars, envVars>>

\* Ownable.transferOwnership, inherited.
TransferOwnershipError(caller, newOwner) ==
    IF OnlyOwnerError(caller) # "" THEN OnlyOwnerError(caller)
    ELSE IF newOwner = ZeroAddress THEN "Ownable: new owner is the zero address"
    ELSE ""

TransferOwnership(caller, newOwner) ==
    IF TransferOwnershipError(caller, newOwner) # ""
    THEN Revert
    ELSE /\ owner' = newOwner
         /\ UNCHANGED <<ledgerVars, bookVars, platformFee, platformWallet,
                        minRentalDuration, maxRentalDuration, paused, whitelistedTokens,
                        foreign, now, eth, callVars, envVars>>

\* What the engine holds of another token contract leaves with transfer().
WithdrawERC20Error(caller, token, to, amount) ==
    IF OnlyOwnerError(caller) # "" THEN OnlyOwnerError(caller)
    ELSE IF to = ZeroAddress THEN "Cannot withdraw to zero address"
    ELSE IF foreign[token][Escrow] < amount THEN "Transfer failed"
    ELSE ""

WithdrawERC20(caller, token, to, amount) ==
    IF WithdrawERC20Error(caller, token, to, amount) # ""
    THEN Revert
    ELSE /\ foreign' = [foreign EXCEPT ![token] =
                            [[@ EXCEPT ![Escrow] = @ - amount] EXCEPT ![to] = @ + amount]]
         /\ UNCHANGED <<ledgerVars, bookVars, platformFee, platformWallet,
                        minRentalDuration, maxRentalDuration, paused, owner,
                        whitelistedTokens, now, eth, callVars, envVars>>

\* Mutant: the recovery path does not look at the whitelist.
WithdrawERC1155ErrorUnguarded(caller, token, to, id, amount) ==
    IF OnlyOwnerError(caller) # "" THEN OnlyOwnerError(caller)
    ELSE IF to = ZeroAddress THEN "Cannot withdraw to zero address"
    ELSE IF token = Token THEN TransferError(Escrow, id, amount)
    ELSE IF foreign[token][Escrow] < amount THEN "InsufficientBalance"
    ELSE ""

WithdrawERC1155Error(caller, token, to, id, amount) ==
    IF OnlyOwnerError(caller) # "" THEN OnlyOwnerError(caller)
    ELSE IF to = ZeroAddress THEN "Cannot withdraw to zero address"
    ELSE IF ~(token # Token \/ ~whitelistedTokens[token])
         THEN "Cannot withdraw whitelisted tokens"
    ELSE IF token = Token THEN TransferError(Escrow, id, amount)
    ELSE IF foreign[token][Escrow] < amount THEN "InsufficientBalance"
    ELSE ""

WithdrawERC1155(caller, token, to, id, amount) ==
    IF WithdrawERC1155Error(caller, token, to, id, amount) # ""
    THEN Revert
    ELSE IF token = Token
    THEN /\ balances' = Moved(balances, Escrow, to, id, amount)
         /\ UNCHANGED <<approved, bookVars, configVars, now, eth, callVars>>
    ELSE /\ foreign' = [foreign EXCEPT ![token] =
                            [[@ EXCEPT ![Escrow] = @ - amount] EXCEPT ![to] = @ + amount]]
         /\ UNCHANGED <<ledgerVars, bookVars, platformFee, platformWallet,
                        minRentalDuration, maxRentalDuration, paused, owner,
                        whitelistedTokens, now, eth, callVars, envVars>>

Tick ==
    /\ now < MaxTime
    /\ now' = now + 1
    /\ UNCHANGED <<ledgerVars, bookVars, configVars, eth, callVars>>

\* The payments a caller attaches: one short, exact, one over.
PaymentChoices(listingId, units, duration) ==
    LET c == TotalCost(listings[listingId], units, duration)
    IN  {v \in {c - 1, c, c + 1} : v >= 0}

\* <<pricePerUnit, minDuration, maxDuration>> a lender asks for: two valid
\* offers, then a zero price, an empty range and a minimum below the limit.
ListingTerms ==
    {<<1, 1, MaxDuration>>, <<MaxPrice, 1, 1>>, <<0, 1, 1>>, <<1, MaxDuration, 1>>,
     <<1, 0, 1>>}

\* One valid offer and one with a zero price.
UnitTerms == {<<1, 1, MaxDuration>>, <<0, 1, 1>>}

\* Unit accounting: up to MaxListings listings and MaxSessions sessions on
\* fixed terms, every user having approved the engine.
Next ==
    \/ \E c \in Users, t \in TokenIds, n \in 0..MaxUnits, x \in UnitTerms :
          listingCounter < MaxListings /\ CreateListing(c, t, x[1], n, x[2], x[3])
    \/ \E c \in Users, l \in ListingIds, n \in 0..MaxUnits, x \in UnitTerms :
          UpdateListing(c, l, x[1], n, x[2], x[3])
    \/ \E c \in Users, l \in ListingIds : CancelListing(c, l)
    \/ \E c \in Users, l \in ListingIds, n \in 0..MaxUnits, d \in 0..MaxDuration :
          \E v \in PaymentChoices(l, n, d) :
              sessionCounter < MaxSessions /\ StartSession(c, l, n, d, v)
    \/ \E c \in Users, s \in SessionIds : EndSession(c, s)
    \/ Tick

Spec == Init /\ [][Next]_vars

\* Terms and approvals: up to MaxOffers listings on any of ListingTerms, users
\* granting and revoking the engine's approval.
NextTerms ==
    \/ \E u \in Users, flag \in BOOLEAN : SetApprovalForAll(u, flag)
    \/ \E c \in Users, t \in TokenIds, n \in 0..MaxUnits, x \in ListingTerms :
          listingCounter < MaxOffers /\ CreateListing(c, t, x[1], n, x[2], x[3])
    \/ \E c \in Users, l \in ListingIds, n \in 0..MaxUnits, x \in ListingTerms :
          UpdateListing(c, l, x[1], n, x[2], x[3])
    \/ \E c \in Users, l \in ListingIds : CancelListing(c, l)
    \/ \E c \in Users, l \in ListingIds, n \in 0..MaxUnits, d \in 0..MaxDuration :
          \E v \in PaymentChoices(l, n, d) :
              sessionCounter < MaxSessions /\ StartSession(c, l, n, d, v)
    \/ \E c \in Users, s \in SessionIds : EndSession(c, s)
    \/ Tick

SpecTerms == InitTerms /\ [][NextTerms]_vars

\* Administration: one listing on fixed terms, the owner changing the fee and
\* pausing and unpausing the engine, every user having approved the engine.
NextAdmin ==
    \/ \E c \in AdminCallers, f \in FeeChoices : UpdatePlatformFee(c, f)
    \/ \E c \in AdminCallers : Pause(c)
    \/ \E c \in AdminCallers : Unpause(c)
    \/ \E c \in Users, t \in TokenIds, n \in 0..MaxUnits, x \in UnitTerms :
          listingCounter < MaxOffers /\ CreateListing(c, t, x[1], n, x[2], x[3])
    \/ \E c \in Users, l \in ListingIds, n \in 0..MaxUnits, x \in UnitTerms :
          UpdateListing(c, l, x[1], n, x[2], x[3])
    \/ \E c \in Users, l \in ListingIds : CancelListing(c, l)
    \/ \E c \in Users, l \in ListingIds, n \in 0..MaxUnits, d \in 0..MaxDuration :
          \E v \in PaymentChoices(l, n, d) :
              sessionCounter < MaxSessions /\ StartSession(c, l, n, d, v)
    \/ \E c \in Users, s \in SessionIds : EndSession(c, s)
    \/ Tick

SpecAdmin == Init /\ [][NextAdmin]_vars

\* <<min, max>> an administrator asks for as global duration limits.
LimitChoices ==
    {<<0, 1>>, <<1, 1>>, <<1, MaxDuration>>, <<MaxDuration, MaxDuration + 1>>}

\* <<pricePerUnit, minDuration, maxDuration>> offered under changing limits.
OwnerTerms == {<<1, 1, MaxDuration>>, <<1, MaxDuration, MaxDuration + 1>>, <<1, 0, 1>>}

\* Ownership and recovery: every administrative entry point, tried by the
\* owner and by another account, around one listing with one session.
NextOwner ==
    \/ \E c \in AdminCallers, n \in {ZeroAddress, "bob"} : TransferOwnership(c, n)
    \/ \E c \in AdminCallers : UpdatePlatformFee(c, BASIS_POINTS)
    \/ \E c \in AdminCallers, w \in {ZeroAddress, "bob"} : UpdatePlatformWallet(c, w)
    \/ \E c \in AdminCallers, x \in LimitChoices : UpdateRentalDurationLimits(c, x[1], x[2])
    \/ \E c \in AdminCallers, f \in BOOLEAN : SetWhitelistedToken(c, Token, f)
    \/ \E c \in AdminCallers : Pause(c)
    \/ \E c \in AdminCallers : Unpause(c)
    \/ \E c \in AdminCallers : EmergencyStop(c)
    \/ \E c \in AdminCallers, to \in {ZeroAddress, Owner} :
          WithdrawERC20(c, StrayERC20, to, 1)
    \/ \E c \in AdminCallers, k \in ERC1155Contracts, to \in {ZeroAddress, Owner},
          t \in TokenIds :
          WithdrawERC1155(c, k, to, t, 1)
    \/ \E c \in Users, t \in TokenIds, n \in 0..MaxUnits, x \in OwnerTerms :
          listingCounter < MaxOffers /\ CreateListing(c, t, x[1], n, x[2], x[3])
    \/ \E c \in Users, l \in ListingIds : CancelListing(c, l)
    \/ \E c \in Users, l \in ListingIds, n \in 0..MaxUnits, d \in 0..(MaxDuration + 1) :
          \E v \in PaymentChoices(l, n, d) :
              sessionCounter < MaxOffers /\ StartSession(c, l, n, d, v)
    \/ \E c \in Users, s \in SessionIds : EndSession(c, s)
    \/ Tick

SpecOwner == Init /\ [][NextOwner]_vars

\* Half the word: twice this price does not fit.
HalfWord == 2 ^ (WordBits - 1)

\* <<pricePerUnit, minDuration, maxDuration>> at the edge of the word.
WordTerms == {<<1, 1, MaxDuration>>, <<HalfWord - 1, 1, MaxDuration>>,
              <<HalfWord, 1, MaxDuration>>}

\* Payments tried against a cost that may not fit the word: nothing, what the
\* product is within the word, and all a word holds.
WordPayments(listingId, units, duration) ==
    {0, TotalCost(listings[listingId], units, duration), UINT_MAX}

\* Word size: one listing priced at the edge of the word.
NextWord ==
    \/ \E c \in Users, t \in TokenIds, n \in 0..MaxUnits, x \in WordTerms :
          listingCounter < MaxOffers /\ CreateListing(c, t, x[1], n, x[2], x[3])
    \/ \E c \in Users, l \in ListingIds, n \in 0..MaxUnits, x \in WordTerms :
          UpdateListing(c, l, x[1], n, x[2], x[3])
    \/ \E c \in Users, l \in ListingIds : CancelListing(c, l)
    \/ \E c \in Users, l \in ListingIds, n \in 0..MaxUnits, d \in 0..MaxDuration :
          \E v \in WordPayments(l, n, d) :
              sessionCounter < MaxSessions /\ StartSession(c, l, n, d, v)
    \/ \E c \in Users, s \in SessionIds : EndSession(c, s)
    \/ Tick

SpecWord == InitWord /\ [][NextWord]_vars

\* Platform wallets an owner appoints.
WalletChoices == {Owner, "bob"}

\* Payees: one listing on fixed terms, paid for while one account may refuse
\* currency and the owner moves the platform wallet and waives the fee.
NextPayee ==
    \/ \E w \in WalletChoices : UpdatePlatformWallet(Owner, w)
    \/ \E f \in {0, BASIS_POINTS - 1} : UpdatePlatformFee(Owner, f)
    \/ \E c \in Users, t \in TokenIds, n \in 0..MaxUnits, x \in UnitTerms :
          listingCounter < MaxOffers /\ CreateListing(c, t, x[1], n, x[2], x[3])
    \/ \E c \in Users, l \in ListingIds : CancelListing(c, l)
    \/ \E c \in Users, l \in ListingIds, n \in 0..MaxUnits, d \in 0..MaxDuration :
          \E v \in PaymentChoices(l, n, d) :
              sessionCounter < MaxSessions /\ StartSession(c, l, n, d, v)
    \/ \E c \in Users, s \in SessionIds : EndSession(c, s)
    \/ Tick

SpecPayee == InitPayee /\ [][NextPayee]_vars

\* Limits: the owner changes the global duration limits while a lender
\* creates and updates one listing and borrowers ask for any duration.
NextLimits ==
    \/ \E c \in AdminCallers, x \in LimitChoices : UpdateRentalDurationLimits(c, x[1], x[2])
    \/ \E c \in Users, t \in TokenIds, n \in 0..MaxUnits, x \in OwnerTerms :
          listingCounter < MaxOffers /\ CreateListing(c, t, x[1], n, x[2], x[3])
    \/ \E c \in Users, l \in ListingIds, n \in 0..MaxUnits, x \in OwnerTerms :
          UpdateListing(c, l, x[1], n, x[2], x[3])
    \/ \E c \in Users, l \in ListingIds : CancelListing(c, l)
    \/ \E c \in Users, l \in ListingIds, n \in 0..MaxUnits, d \in 0..(MaxDuration + 1) :
          \E v \in PaymentChoices(l, n, d) :
              sessionCounter < MaxSessions /\ StartSession(c, l, n, d, v)
    \/ \E c \in Users, s \in SessionIds : EndSession(c, s)
    \/ Tick

SpecLimits == Init /\ [][NextLimits]_vars

\* ------------------------------------ LendingEscrow, second definition
\* The 3-argument createListing, which leaves the units with the lender
\* until a session starts, and the endSession of the borrower or the owner,
\* which settles the time not used.
EmptyListingProrated ==
    [lender |-> ZeroAddress, tokenId |-> 0, pricePerUnit |-> 0, availableUnits |-> 0,
     isActive |-> FALSE]

EmptySessionProrated ==
    [borrower |-> ZeroAddress, listingId |-> 0, units |-> 0, startTime |-> 0,
     endTime |-> 0, isActive |-> FALSE]

InitProrated ==
    /\ InitShared
    /\ listings = [l \in ListingIds |-> EmptyListingProrated]
    /\ sessions = [s \in SessionIds |-> EmptySessionProrated]
    /\ approved = Users
    /\ eth = Funded(InitialEth)
    /\ refusing = {}

CreateListingProratedError(caller, tokenId, pricePerUnit, units) ==
    IF ~(units > 0) THEN "Must list at least one unit"
    ELSE IF ~(pricePerUnit > 0) THEN "Price must be greater than 0"
    ELSE IF tokenId \notin TokenIds \/ ~(balances[caller][tokenId] >= units)
         THEN "Insufficient token balance"
    ELSE IF caller \notin approved THEN "Contract not approved to transfer tokens"
    ELSE ""

CreateListingProrated(caller, tokenId, pricePerUnit, units) ==
    LET listingId == listingCounter + 1 IN
    IF CreateListingProratedError(caller, tokenId, pricePerUnit, units) # ""
    THEN Revert
    ELSE /\ listingCounter' = listingId
         /\ listings' = [listings EXCEPT ![listingId] =
                [lender |-> caller, tokenId |-> tokenId, pricePerUnit |-> pricePerUnit,
                 availableUnits |-> units, isActive |-> TRUE]]
         /\ userListings' = [userListings EXCEPT ![caller] = Append(@, listingId)]
         /\ UNCHANGED <<ledgerVars, sessions, sessionCounter, userSessions, configVars,
                        now, eth, callVars>>

CancelListingProratedError(caller, listingId) ==
    IF listings[listingId].lender # caller THEN "Not the lender"
    ELSE IF ~listings[listingId].isActive THEN "Listing is not active"
    ELSE ""

CancelListingProrated(caller, listingId) ==
    IF CancelListingProratedError(caller, listingId) # ""
    THEN Revert
    ELSE /\ listings' = [listings EXCEPT ![listingId].isActive = FALSE]
         /\ UNCHANGED <<ledgerVars, sessions, listingCounter, sessionCounter, userListings,
                        userSessions, configVars, now, eth, callVars>>

\* _distributePayment: the platform's share, rounded down, and the rest.
PlatformAmount(amount) == (amount * platformFee) \div 10000

DistributePaymentError(lender, amount) ==
    IF MulOverflows(amount, platformFee) THEN "Panic: overflow"
    ELSE IF PlatformAmount(amount) > 0 /\ SendError(platformWallet) # ""
         THEN SendError(platformWallet)
    ELSE IF amount - PlatformAmount(amount) > 0 /\ SendError(lender) # ""
         THEN SendError(lender)
    ELSE ""

DistributePayment(e, lender, amount) ==
    Paid(Paid(e, Escrow, platformWallet, PlatformAmount(amount)),
         Escrow, lender, amount - PlatformAmount(amount))

StartSessionProratedError(caller, listingId, units, duration, value) ==
    LET listing == listings[listingId] IN
    IF entered THEN "ReentrancyGuard: reentrant call"
    ELSE IF ~listing.isActive THEN "Listing is not active"
    ELSE IF ~(units > 0) THEN "Must borrow at least one unit"
    ELSE IF ~(units <= listing.availableUnits) THEN "Not enough units available"
    ELSE IF ~(duration > 0) THEN "Duration must be greater than 0"
    ELSE IF TotalCostOverflows(listing, units, duration) THEN "Panic: overflow"
    ELSE IF ~(value >= TotalCost(listing, units, duration)) THEN "Insufficient payment"
    ELSE IF TransferError(listing.lender, listing.tokenId, units) # ""
         THEN TransferError(listing.lender, listing.tokenId, units)
    ELSE IF now + duration > UINT_MAX THEN "Panic: overflow"
    ELSE IF DistributePaymentError(listing.lender, TotalCost(listing, units, duration)) # ""
         THEN DistributePaymentError(listing.lender, TotalCost(listing, units, duration))
    ELSE IF value > TotalCost(listing, units, duration) /\ SendError(caller) # ""
         THEN SendError(caller)
    ELSE ""

StartSessionProrated(caller, listingId, units, duration, value) ==
    LET listing == listings[listingId]
        totalPrice == TotalCost(listing, units, duration)
        sessionId == sessionCounter + 1
    IN  /\ value <= eth[caller]
        /\ IF StartSessionProratedError(caller, listingId, units, duration, value) # ""
           THEN Revert
           ELSE /\ balances' = Moved(balances, listing.lender, Escrow, listing.tokenId, units)
                /\ listings' = [listings EXCEPT ![listingId].availableUnits = @ - units]
                /\ sessionCounter' = sessionId
                /\ sessions' = [sessions EXCEPT ![sessionId] =
                       [borrower |-> caller, listingId |-> listingId, units |-> units,
                        startTime |-> now, endTime |-> now + duration, isActive |-> TRUE]]
                /\ userSessions' = [userSessions EXCEPT ![caller] = Append(@, sessionId)]
                /\ eth' = Paid(DistributePayment(Paid(eth, caller, Escrow, value),
                                                 listing.lender, totalPrice),
                               Escrow, caller, Refund(value, totalPrice))
                /\ UNCHANGED <<approved, listingCounter, userListings, configVars, now,
                               callVars>>

\* The time a session is charged for when it is closed now.
ActualDuration(session) ==
    IF now > session.endTime THEN session.endTime - session.startTime
    ELSE now - session.startTime

\* What the session cost for its whole duration, at the listing's price.
TotalPaid(session) ==
    listings[session.listingId].pricePerUnit * session.units
        * (session.endTime - session.startTime)

AmountOwed(session) ==
    listings[session.listingId].pricePerUnit * session.units * ActualDuration(session)

\* totalPaid - amountOwed when amountOwed < totalPaid; nothing is sent otherwise.
RefundAmount(session) ==
    IF AmountOwed(session) < TotalPaid(session)
    THEN TotalPaid(session) - AmountOwed(session) ELSE 0

PlatformRefund(session) == (RefundAmount(session) * platformFee) \div 10000

LenderRefund(session) == RefundAmount(session) - PlatformRefund(session)

\* Mutant: a closure at the very end of the session counts as early.
CompletedStrictly(session) == now > session.endTime

\* The completed flag of SessionEnded.
Completed(session) == now >= session.endTime

EndSessionProratedError(caller, sessionId) ==
    LET session == sessions[sessionId]
        listing == listings[session.listingId]
    IN
    IF entered THEN "ReentrancyGuard: reentrant call"
    ELSE IF ~session.isActive THEN "Session is not active"
    ELSE IF ~(caller = session.borrower \/ caller = owner)
         THEN "Not authorized to end session"
    ELSE IF TotalPaid(session) > UINT_MAX THEN "Panic: overflow"
    ELSE IF TransferError(Escrow, listing.tokenId, session.units) # ""
         THEN TransferError(Escrow, listing.tokenId, session.units)
    ELSE IF MulOverflows(RefundAmount(session), platformFee) THEN "Panic: overflow"
    ELSE IF LenderRefund(session) > 0
            /\ (eth[Escrow] < LenderRefund(session) \/ SendError(listing.lender) # "")
         THEN "Transfer reverted"
    ELSE IF PlatformRefund(session) > 0
            /\ (eth[Escrow] - LenderRefund(session) < PlatformRefund(session)
                \/ SendError(platformWallet) # "")
         THEN "Transfer reverted"
    ELSE ""

EndSessionProrated(caller, sessionId) ==
    LET session == sessions[sessionId]
        listing == listings[session.listingId]
    IN  IF EndSessionProratedError(caller, sessionId) # ""
        THEN Revert
        ELSE /\ sessions' = [sessions EXCEPT ![sessionId].isActive = FALSE]
             /\ balances' = Moved(balances, Escrow, listing.lender, listing.tokenId,
                                  session.units)
             /\ eth' = Paid(Paid(eth, Escrow, listing.lender, LenderRefund(session)),
                            Escrow, platformWallet, PlatformRefund(session))
             /\ emitted' = [event |-> "SessionEnded", sessionId |-> sessionId,
                            completed |-> Completed(session)]
             /\ UNCHANGED <<approved, listings, listingCounter, sessionCounter,
                            userListings, userSessions, platformFee, platformWallet,
                            minRentalDuration, maxRentalDuration, paused, owner,
                            whitelistedTokens, foreign, refusing, now, callVars>>

\* The most currency the engine is given outside its calls.
MaxGift == MaxPrice * MaxUnits

\* Currency reaches the engine's address without a call of the engine, as
\* the beneficiary of a selfdestruct does.
Deposit(from, amount) ==
    /\ amount <= eth[from]
    /\ eth[Escrow] + amount <= MaxGift
    /\ eth' = Paid(eth, from, Escrow, amount)
    /\ UNCHANGED <<ledgerVars, bookVars, configVars, now, callVars>>

\* Prices a lender asks in the second definition.
PriceChoices == {0, 1, MaxPrice}

\* Proration: one listing of the second definition, sessions closed early,
\* on time and late by the borrower or the owner, the fee changing between.
NextProrated ==
    \/ \E c \in Users, t \in TokenIds, n \in 0..MaxUnits, p \in PriceChoices :
          listingCounter < MaxOffers /\ CreateListingProrated(c, t, p, n)
    \/ \E c \in Users, l \in ListingIds : CancelListingProrated(c, l)
    \/ \E c \in Users, l \in ListingIds, n \in 0..MaxUnits, d \in 0..MaxDuration :
          \E v \in PaymentChoices(l, n, d) :
              sessionCounter < MaxSessions /\ StartSessionProrated(c, l, n, d, v)
    \/ \E c \in Users \cup {Owner}, s \in SessionIds : EndSessionProrated(c, s)
    \/ UpdatePlatformFee(Owner, BASIS_POINTS \div 2)
    \/ \E a \in {1, MaxGift} : Deposit("bob", a)
    \/ Tick

SpecProrated == InitProrated /\ [][NextProrated]_vars

\* ------------------------------------------------- calls with callbacks
\* safeTransferFrom calls onERC1155Received of a recipient that is a contract.
\* The recipient is the caller in cancelListing and startSession and the
\* lender in endSession; in createListing and updateListing it is the engine
\* itself, whose hook only returns its selector.  The currency is sent with
\* transfer(), whose 2300 gas let the recipient call nothing.  A call whose
\* recipient runs code is split at the callback: the writes before it, the
\* calls the recipient makes, the writes after it.
Frame(op, recipient, listingId, sessionId) ==
    [op |-> op, recipient |-> recipient, listingId |-> listingId, sessionId |-> sessionId]

Idle == frame.op = "none"

\* cancelListing up to and including the transfer; it takes no lock.
BeginCancelListing(caller, listingId) ==
    LET listing == listings[listingId] IN
    /\ Idle
    /\ CancelListingError(caller, listingId) = ""
    /\ listing.availableUnits > 0
    /\ listings' = [listings EXCEPT ![listingId].isActive = FALSE]
    /\ balances' = Moved(balances, Escrow, caller, listing.tokenId, listing.availableUnits)
    /\ frame' = Frame("cancelListing", caller, listingId, 0)
    /\ UNCHANGED <<approved, sessions, listingCounter, sessionCounter, userListings,
                   userSessions, configVars, now, eth, entered>>

\* cancelListing after the transfer: the event only.
FinishCancelListing ==
    /\ frame.op = "cancelListing"
    /\ frame' = NoFrame
    /\ UNCHANGED <<ledgerVars, bookVars, configVars, now, eth, entered>>

\* Mutant: the units are handed over first; payment, availability and the
\* session record are left for after the recipient's callback.
BeginStartSessionUnitsFirst(caller, listingId, units, duration, value) ==
    LET listing == listings[listingId]
        sessionId == sessionCounter + 1
    IN  /\ Idle
        /\ value <= eth[caller]
        /\ StartSessionError(caller, listingId, units, duration, value) = ""
        /\ entered' = TRUE
        /\ sessionCounter' = sessionId
        /\ balances' = Moved(balances, Escrow, caller, listing.tokenId, units)
        /\ frame' = Frame("startSession", caller, listingId, sessionId)
        /\ UNCHANGED <<approved, listings, sessions, listingCounter, userListings,
                       userSessions, configVars, now, eth>>

\* startSession up to and including the transfer of the units: nonReentrant
\* holds the lock.
BeginStartSession(caller, listingId, units, duration, value) ==
    LET listing == listings[listingId]
        totalCost == TotalCost(listing, units, duration)
        feeAmount == FeeAmount(totalCost)
        lenderAmount == totalCost - feeAmount
        sessionId == sessionCounter + 1
    IN  /\ Idle
        /\ value <= eth[caller]
        /\ StartSessionError(caller, listingId, units, duration, value) = ""
        /\ entered' = TRUE
        /\ eth' = Paid(Paid(Paid(Paid(eth,
                       caller, Escrow, value),
                       Escrow, listing.lender, lenderAmount),
                       Escrow, platformWallet, feeAmount),
                       Escrow, caller, Refund(value, totalCost))
        /\ sessionCounter' = sessionId
        /\ sessions' = [sessions EXCEPT ![sessionId] =
               [borrower |-> caller, listingId |-> listingId, units |-> units,
                startTime |-> now, endTime |-> now + duration,
                totalPaid |-> totalCost, isActive |-> TRUE]]
        /\ listings' = [listings EXCEPT ![listingId] = ListingAfterStart(listing, units)]
        /\ balances' = Moved(balances, Escrow, caller, listing.tokenId, units)
        /\ frame' = Frame("startSession", caller, listingId, sessionId)
        /\ UNCHANGED <<approved, listingCounter, userListings, userSessions, configVars, now>>

\* startSession after the transfer: the session is indexed, the lock released.
FinishStartSession ==
    /\ frame.op = "startSession"
    /\ userSessions' = [userSessions EXCEPT ![frame.recipient] = Append(@, frame.sessionId)]
    /\ entered' = FALSE
    /\ frame' = NoFrame
    /\ UNCHANGED <<ledgerVars, listings, sessions, listingCounter, sessionCounter,
                   userListings, configVars, now, eth>>

\* endSession up to and including the transfer to the lender: nonReentrant
\* holds the lock.
BeginEndSession(caller, sessionId) ==
    LET session == sessions[sessionId]
        listing == listings[session.listingId]
    IN  /\ Idle
        /\ EndSessionError(caller, sessionId) = ""
        /\ entered' = TRUE
        /\ sessions' = [sessions EXCEPT ![sessionId].isActive = FALSE]
        /\ balances' = Moved(balances, caller, listing.lender, listing.tokenId, session.units)
        /\ frame' = Frame("endSession", listing.lender, session.listingId, sessionId)
        /\ UNCHANGED <<approved, listings, listingCounter, sessionCounter, userListings,
                       userSessions, configVars, now, eth>>

\* endSession after the transfer: the availability of the listing as it is
\* now, then the lock is released.
FinishEndSession ==
    /\ frame.op = "endSession"
    /\ listings' = [listings EXCEPT ![frame.listingId] =
                        ListingAfterEnd(listings[frame.listingId],
                                        sessions[frame.sessionId].units)]
    /\ entered' = FALSE
    /\ frame' = NoFrame
    /\ UNCHANGED <<ledgerVars, sessions, listingCounter, sessionCounter, userListings,
                   userSessions, configVars, now, eth>>

\* The calls an account makes: from outside when no call is in progress, from
\* its callback when it is the recipient of the call in progress.
MayCall(c) == Idle \/ frame.recipient = c

\* Reentrancy: one listing on fixed terms; a recipient's callback may call any
\* of the five entry points before it returns.
NextReentry ==
    \/ \E c \in Users, t \in TokenIds, n \in 0..MaxUnits, x \in UnitTerms :
          MayCall(c) /\ listingCounter < MaxOffers /\ CreateListing(c, t, x[1], n, x[2], x[3])
    \/ \E c \in Users, l \in ListingIds, n \in 0..MaxUnits, x \in UnitTerms :
          MayCall(c) /\ UpdateListing(c, l, x[1], n, x[2], x[3])
    \/ \E c \in Users, l \in ListingIds : MayCall(c) /\ CancelListing(c, l)
    \/ \E c \in Users, l \in ListingIds, n \in 0..MaxUnits, d \in 0..MaxDuration :
          \E v \in PaymentChoices(l, n, d) :
              MayCall(c) /\ sessionCounter < MaxSessions /\ StartSession(c, l, n, d, v)
    \/ \E c \in Users, s \in SessionIds : MayCall(c) /\ EndSession(c, s)
    \/ \E c \in Users, l \in ListingIds : BeginCancelListing(c, l)
    \/ FinishCancelListing
    \/ \E c \in Users, l \in ListingIds, n \in 0..MaxUnits, d \in 0..MaxDuration :
          \E v \in PaymentChoices(l, n, d) :
              sessionCounter < MaxSessions /\ BeginStartSession(c, l, n, d, v)
    \/ FinishStartSession
    \/ \E c \in Users, s \in SessionIds : BeginEndSession(c, s)
    \/ FinishEndSession
    \/ Idle /\ Tick

SpecReentry == Init /\ [][NextReentry]_vars

\* ------------------------------------------------------------- vocabulary
RECURSIVE Sum(_, _)
Sum(f, S) == IF S = {} THEN 0
             ELSE LET x == CHOOSE y \in S : TRUE IN f[x] + Sum(f, S \ {x})

Exists(listingId) == listings[listingId].lender # ZeroAddress
Started(sessionId) == sessions[sessionId].borrower # ZeroAddress
Closed(sessionId) == Started(sessionId) /\ ~sessions[sessionId].isActive

\* Units out in the open sessions of a listing.
OpenUnits(listingId) ==
    Sum([s \in SessionIds |-> sessions[s].units],
        {s \in SessionIds : sessions[s].isActive /\ sessions[s].listingId = listingId})

\* Units the active listings of a batch advertise as available.
AdvertisedUnits(tokenId) ==
    Sum([l \in ListingIds |-> listings[l].availableUnits],
        {l \in ListingIds : listings[l].isActive /\ listings[l].tokenId = tokenId})

HeldUnits(tokenId) == Sum([h \in Holders |-> balances[h][tokenId]], Holders)

\* The step is a successful startSession / endSession(s).
StartsSession == sessionCounter' = sessionCounter + 1
EndsSession(s) == sessions[s].isActive /\ ~sessions'[s].isActive
\* The step is a successful cancelListing(l).
CancelsListing(l) == listings[l].isActive /\ ~listings'[l].isActive

\* ------------------------------------------------------------------ claims

\* C1: for every unit batch the sum of the balances of all holders, the
\* engine's escrow account included, stays what was minted.
UnitConservation ==
    \A t \in TokenIds : HeldUnits(t) = Sum([h \in Holders |-> InitialUnits(h, t)], Holders)

\* Units have gone through a listing, a session, its closure and a cancel.
UnitsHaveMoved ==
    \E s \in SessionIds, l \in ListingIds :
        /\ Closed(s)
        /\ Exists(l) /\ ~listings[l].isActive
        /\ \E u \in Users : balances[u][listings[l].tokenId] # InitialUnits(u, listings[l].tokenId)

\* C2: the escrow balance of every batch covers what the active listings of
\* that batch advertise as available.
EscrowSolvency ==
    \A t \in TokenIds : balances[Escrow][t] >= AdvertisedUnits(t)

\* C3: every listing, active or not, has 0 <= availableUnits <= totalUnits.
AvailabilityBound ==
    \A l \in ListingIds :
        0 <= listings[l].availableUnits /\ listings[l].availableUnits <= listings[l].totalUnits

\* An active listing of more units than a session took, all available again
\* after that session was closed.
AvailabilityRestored ==
    \E l \in ListingIds, s \in SessionIds :
        /\ listings[l].isActive
        /\ Closed(s) /\ sessions[s].listingId = l
        /\ listings[l].totalUnits > sessions[s].units
        /\ listings[l].availableUnits = listings[l].totalUnits

\* C4 as stated: for every listing, cancelled ones included, totalUnits -
\* availableUnits is the sum of the units of its open sessions.
RentedAccountingAll ==
    \A l \in ListingIds : RentedUnits(listings[l]) = OpenUnits(l)

\* C4 amended: for every active listing, totalUnits - availableUnits is the
\* sum of the units of its open sessions.
RentedAccounting ==
    \A l \in ListingIds : listings[l].isActive => RentedUnits(listings[l]) = OpenUnits(l)

\* An active listing with two open sessions.
TwoOpenSessions ==
    \E l \in ListingIds :
        /\ listings[l].isActive
        /\ Cardinality({s \in SessionIds : sessions[s].isActive /\ sessions[s].listingId = l}) = 2
        /\ RentedUnits(listings[l]) = 2

\* C5: a successful startSession for u units and duration d at price p moves
\* floor(p*u*d*fee/10000) to the platform wallet and p*u*d minus that to the
\* lender, all of it paid by the borrower: nothing is lost or created.
PaymentExactness ==
    [][StartsSession =>
        LET s == sessions'[sessionCounter']
            listing == listings[s.listingId]
            total == listing.pricePerUnit * s.units * (s.endTime - s.startTime)
            fee == (total * platformFee) \div 10000
        IN  /\ s.totalPaid = total
            /\ \A a \in Holders :
                 eth'[a] - eth[a] = (IF a = platformWallet THEN fee ELSE 0)
                                    + (IF a = listing.lender THEN total - fee ELSE 0)
                                    - (IF a = s.borrower THEN total ELSE 0)
            /\ Sum(eth', Holders) = Sum(eth, Holders)]_vars

\* A session whose fee is positive and was rounded down.
FeeWasRounded ==
    \E s \in SessionIds :
        /\ Started(s)
        /\ (sessions[s].totalPaid * platformFee) % BASIS_POINTS # 0
        /\ (sessions[s].totalPaid * platformFee) \div BASIS_POINTS > 0
        /\ eth[platformWallet] > 0

\* C6: a successful startSession on an active listing for 0 < u <=
\* availableUnits lowers availableUnits by u, raises the borrower's balance by
\* u, lowers the escrow balance by u and records a new active session of u
\* units from now to now + duration with totalPaid = pricePerUnit*u*duration.
StartSessionEffect ==
    [][StartsSession =>
        LET sid == sessionCounter'
            s == sessions'[sid]
            l == s.listingId
            t == listings[l].tokenId
        IN  /\ listings[l].isActive
            /\ 0 < s.units /\ s.units <= listings[l].availableUnits
            /\ listings'[l].availableUnits = listings[l].availableUnits - s.units
            /\ listings'[l].totalUnits = listings[l].totalUnits
            /\ balances'[s.borrower][t] = balances[s.borrower][t] + s.units
            /\ balances'[Escrow][t] = balances[Escrow][t] - s.units
            /\ ~Started(sid) /\ s.isActive /\ s.borrower \in Users
            /\ s.startTime = now /\ s.endTime > s.startTime
            /\ s.totalPaid = listings[l].pricePerUnit * s.units * (s.endTime - s.startTime)
            /\ \A a \in Holders \ {s.borrower} : eth'[a] >= eth[a]
            /\ \A o \in SessionIds \ {sid} : sessions'[o] = sessions[o]]_vars

\* A borrower other than the lender holds the units of its open session.
BorrowerHoldsUnits ==
    \E s \in SessionIds :
        /\ sessions[s].isActive
        /\ sessions[s].borrower # listings[sessions[s].listingId].lender
        /\ balances[sessions[s].borrower][listings[sessions[s].listingId].tokenId]
               = sessions[s].units
        /\ listings[sessions[s].listingId].availableUnits > 0

\* C7: a successful endSession closes the session, lowers the borrower's
\* balance by session.units, raises the lender's by session.units and, if the
\* listing is still active, raises its availableUnits by session.units
\* (stated for a borrower that is not the lender).
EndSessionEffect ==
    [][\A s \in SessionIds :
        (EndsSession(s) /\ sessions[s].borrower # listings[sessions[s].listingId].lender) =>
        LET l == sessions[s].listingId
            t == listings[l].tokenId
            b == sessions[s].borrower
        IN  /\ balances'[b][t] = balances[b][t] - sessions[s].units
            /\ balances'[listings[l].lender][t] = balances[listings[l].lender][t] + sessions[s].units
            /\ listings[l].isActive =>
                 listings'[l].availableUnits = listings[l].availableUnits + sessions[s].units]_vars

\* C8: endSession by an account that is neither the session's borrower nor
\* the owner is rejected.
OnlyBorrowerOrOwnerCloses ==
    \A c \in Users, s \in SessionIds :
        (Started(s) /\ c # sessions[s].borrower /\ c # Owner) => EndSessionError(c, s) # ""

\* C9: endSession on an active session is rejected as not yet ended while
\* now < endTime, and the same call (here: the borrower's) succeeds once
\* now >= endTime.
ClosableOnceEnded ==
    \A s \in SessionIds :
        sessions[s].isActive =>
            /\ now < sessions[s].endTime =>
                 \A c \in Users : EndSessionError(c, s) = "Session not yet ended"
            /\ now >= sessions[s].endTime => EndSessionError(sessions[s].borrower, s) = ""

\* C10: an endSession on a closed session is rejected as not active, whoever
\* calls, and a closed session is never closed again nor reopened.
IdempotentClosure ==
    /\ [](\A s \in SessionIds : Closed(s) =>
            \A c \in Users : EndSessionError(c, s) = "Session not active")
    /\ [][\A s \in SessionIds : Closed(s) => sessions'[s] = sessions[s]]_vars

\* A closed session whose units a caller could hand over once more.
ClosedAndRepeatable ==
    \E s \in SessionIds, c \in Users :
        /\ Closed(s)
        /\ now >= sessions[s].endTime
        /\ TransferError(c, listings[sessions[s].listingId].tokenId, sessions[s].units) = ""

\* C11: a startSession for 0 units or for more units than the listing has
\* available is rejected, whoever calls and whatever is paid, and the call
\* changes no variable: no payment, no session id, no availability, no balance.
UnitsOutOfRangeRejected ==
    /\ [](\A l \in ListingIds, n \in 0..(MaxUnits + 1) :
            (n = 0 \/ n > listings[l].availableUnits) =>
                \A c \in Users, d \in 0..MaxDuration : \A v \in PaymentChoices(l, n, d) :
                    StartSessionError(c, l, n, d, v) # "")
    /\ [][\/ UNCHANGED vars
          \/ \A l \in ListingIds, n \in 0..(MaxUnits + 1) :
                (n = 0 \/ n > listings[l].availableUnits) =>
                    \A c \in Users, d \in 0..MaxDuration : \A v \in PaymentChoices(l, n, d) :
                        ~StartSession(c, l, n, d, v)]_vars

\* A request that only the availability check stops: the listing is active,
\* the payment is enough and the escrow holds more units than are asked for.
OnlyAvailabilityStops ==
    \E c \in Users, l \in ListingIds, d \in 1..MaxDuration :
        LET n == listings[l].availableUnits + 1 IN
            /\ listings[l].availableUnits > 0
            /\ sessionCounter < MaxSessions
            /\ StartSessionError(c, l, n, d, TotalCost(listings[l], n, d))
                   = "Not enough units available"
            /\ TransferError(Escrow, listings[l].tokenId, n) = ""

\* The checks startSession makes before it looks at the payment all pass.
PassesUntilPayment(l, n, d) ==
    /\ ~entered /\ ~paused /\ listings[l].isActive
    /\ 0 < n /\ n <= listings[l].availableUnits
    /\ listings[l].minDuration <= d /\ d <= listings[l].maxDuration
    /\ ~MulOverflows(listings[l].pricePerUnit, n)
    /\ ~MulOverflows(listings[l].pricePerUnit * n, d)

\* C12: a startSession paying less than pricePerUnit*units*duration, be it by
\* one currency unit, is rejected, with 'Insufficient payment' when every
\* earlier check passes, and the call creates no session and moves nothing.
ShortPaymentRejected ==
    /\ [](\A c \in Users, l \in ListingIds, n \in 0..MaxUnits, d \in 0..MaxDuration :
            \A v \in 0..(TotalCost(listings[l], n, d) - 1) :
                /\ StartSessionError(c, l, n, d, v) # ""
                /\ PassesUntilPayment(l, n, d) =>
                       StartSessionError(c, l, n, d, v) = "Insufficient payment")
    /\ [][\/ UNCHANGED vars
          \/ \A c \in Users, l \in ListingIds, n \in 0..MaxUnits, d \in 0..MaxDuration :
                \A v \in 0..(TotalCost(listings[l], n, d) - 1) :
                    ~StartSession(c, l, n, d, v)]_vars

\* A request that is accepted with the exact payment and rejected for being
\* one currency unit short of a cost of several units.
ShortByOne ==
    \E c \in Users, l \in ListingIds, n \in 1..MaxUnits, d \in 1..MaxDuration :
        LET cost == TotalCost(listings[l], n, d) IN
            /\ cost > 1
            /\ sessionCounter < MaxSessions
            /\ StartSessionError(c, l, n, d, cost) = ""
            /\ StartSessionError(c, l, n, d, cost - 1) = "Insufficient payment"

\* C13: a createListing for more units than the caller holds, or by a caller
\* that has not approved the engine as operator, is rejected, and the call
\* creates no listing, leaves listingCounter alone and moves no units.
UnbackedListingRejected ==
    /\ [](\A c \in Users, t \in TokenIds, n \in 0..(MaxUnits + 1), x \in ListingTerms :
            (balances[c][t] < n \/ c \notin approved) =>
                CreateListingError(c, t, x[1], n, x[2], x[3]) # "")
    /\ [][\/ UNCHANGED vars
          \/ \A c \in Users, t \in TokenIds, n \in 0..(MaxUnits + 1), x \in ListingTerms :
                (balances[c][t] < n \/ c \notin approved) =>
                    ~CreateListing(c, t, x[1], n, x[2], x[3])]_vars

\* One holder that approved the engine asks for one unit more than it holds,
\* another holder of units has not approved the engine: the ledger alone
\* stops both listings.
LedgerStopsListing ==
    /\ \E c \in approved, t \in TokenIds :
          /\ balances[c][t] > 0
          /\ CreateListingError(c, t, 1, balances[c][t] + 1, 1, 1) = "InsufficientBalance"
    /\ \E c \in Users \ approved, t \in TokenIds :
          /\ balances[c][t] > 0
          /\ CreateListingError(c, t, 1, balances[c][t], 1, 1) = "Unauthorized"

\* C14: platformFee is below 10000 basis points in every state; the
\* constructor and updatePlatformFee reject every fee of 10000 or more, and a
\* rejected updatePlatformFee leaves platformFee as it was.
FeeBound ==
    /\ [](platformFee < BASIS_POINTS)
    /\ [](\A f \in FeeChoices : f >= BASIS_POINTS =>
            /\ ConstructorError(Token, platformWallet, f) = "Fee too high"
            /\ UpdatePlatformFeeError(Owner, f) = "Fee too high")
    /\ [][\A c \in AdminCallers, f \in FeeChoices :
            (UpdatePlatformFeeError(c, f) # "" /\ UpdatePlatformFee(c, f)) =>
                platformFee' = platformFee]_vars

\* The owner has raised the fee to the largest value allowed and a session
\* has paid it.
FeeRaisedToLimit ==
    /\ platformFee = BASIS_POINTS - 1
    /\ platformFee \notin InitialFees
    /\ \E s \in SessionIds : Started(s) /\ eth[platformWallet] >= sessions[s].totalPaid - 1
                               /\ sessions[s].totalPaid > 1

CustodyUnwindable ==
    \A l \in ListingIds :
        listings[l].isActive => CancelListingError(listings[l].lender, l) = ""

\* C17: a successful cancelListing makes the listing inactive, changes no
\* other field of it, moves exactly its availableUnits from the escrow to the
\* lender and nothing else: the units out in open sessions stay where they
\* are and every session is as before.
CancelListingEffect ==
    [][\A l \in ListingIds : CancelsListing(l) =>
        LET t == listings[l].tokenId
            lender == listings[l].lender
            returned == listings[l].availableUnits
        IN  /\ listings' = [listings EXCEPT ![l].isActive = FALSE]
            /\ balances'[Escrow][t] = balances[Escrow][t] - returned
            /\ balances'[lender][t] = balances[lender][t] + returned
            /\ \A h \in Holders \ {Escrow, lender} : balances'[h] = balances[h]
            /\ sessions' = sessions]_vars

\* A cancelled listing that had units on offer and has a session still open
\* with another account, which holds the session's units.
CancelledWithOpenSession ==
    \E l \in ListingIds, s \in SessionIds :
        /\ Exists(l) /\ ~listings[l].isActive
        /\ listings[l].availableUnits > 0
        /\ sessions[s].isActive /\ sessions[s].listingId = l
        /\ sessions[s].borrower # listings[l].lender
        /\ balances[sessions[s].borrower][listings[l].tokenId] >= sessions[s].units
        /\ balances[listings[l].lender][listings[l].tokenId] >= listings[l].availableUnits

\* C18: an updateListing whose new total is below the rented quantity
\* (totalUnits - availableUnits) is rejected and changes nothing; after every
\* successful update totalUnits is the requested total and availableUnits is
\* the requested total minus the rented quantity, which stays what it was.
UpdateKeepsRented ==
    /\ [](\A c \in Users, l \in ListingIds, n \in 0..MaxUnits, x \in ListingTerms :
            n < RentedUnits(listings[l]) =>
                UpdateListingError(c, l, x[1], n, x[2], x[3]) # "")
    /\ [][\/ UNCHANGED vars
          \/ \A c \in Users, l \in ListingIds, n \in 0..MaxUnits, x \in ListingTerms :
                UpdateListing(c, l, x[1], n, x[2], x[3]) =>
                    /\ n >= RentedUnits(listings[l])
                    /\ listings'[l].totalUnits = n
                    /\ listings'[l].availableUnits = n - RentedUnits(listings[l])
                    /\ RentedUnits(listings'[l]) = RentedUnits(listings[l])]_vars

\* An active listing was updated while units of it are rented: the price of
\* the listing is no longer the price its open session paid.
UpdatedWhileRented ==
    \E l \in ListingIds, s \in SessionIds :
        /\ listings[l].isActive
        /\ sessions[s].isActive /\ sessions[s].listingId = l
        /\ RentedUnits(listings[l]) = sessions[s].units
        /\ sessions[s].totalPaid #
               listings[l].pricePerUnit * sessions[s].units
                   * (sessions[s].endTime - sessions[s].startTime)

\* C19: a successful updateListing that raises totalUnits from T to T' moves
\* exactly T' - T units of the listing's batch from the lender to the escrow
\* and no other units; when the lender holds fewer than T' - T units or has
\* not approved the engine, the update is rejected and changes nothing.
UpdatePullsIncrease ==
    /\ [](\A c \in Users, l \in ListingIds, n \in 0..(MaxUnits + 1), x \in ListingTerms :
            ( /\ listings[l].lender = c /\ n > listings[l].totalUnits
              /\ \/ balances[c][listings[l].tokenId] < n - listings[l].totalUnits
                 \/ c \notin approved )
            => UpdateListingError(c, l, x[1], n, x[2], x[3]) # "")
    /\ [][\/ UNCHANGED vars
          \/ \A c \in Users, l \in ListingIds, n \in 0..(MaxUnits + 1), x \in ListingTerms :
                (n > listings[l].totalUnits /\ UpdateListing(c, l, x[1], n, x[2], x[3])) =>
                    LET t == listings[l].tokenId
                        more == n - listings[l].totalUnits
                    IN  /\ balances'[c][t] = balances[c][t] - more
                        /\ balances'[Escrow][t] = balances[Escrow][t] + more
                        /\ \A h \in Holders \ {c, Escrow} : balances'[h] = balances[h]
                        /\ listings'[l].totalUnits = n]_vars

\* A lender that holds one spare unit and has a unit of its listing rented
\* out: raising the total by one succeeds, raising it by two is rejected by
\* the ledger.
LenderCanAddOne ==
    \E l \in ListingIds :
        LET c == listings[l].lender
            T == listings[l].totalUnits
        IN  /\ listings[l].isActive
            /\ RentedUnits(listings[l]) > 0
            /\ balances[c][listings[l].tokenId] = 1
            /\ UpdateListingError(c, l, 1, T + 1, 1, 1) = ""
            /\ UpdateListingError(c, l, 1, T + 2, 1, 1) = "InsufficientBalance"

\* C20: while one of createListing, updateListing, cancelListing,
\* startSession or endSession is executing, a recipient's callback included,
\* every nested call of any of the five is rejected.
ReentrancyExclusion ==
    ~Idle =>
        LET c == frame.recipient IN
        /\ \A t \in TokenIds, n \in 0..MaxUnits, x \in UnitTerms :
              CreateListingError(c, t, x[1], n, x[2], x[3]) # ""
        /\ \A l \in ListingIds, n \in 0..MaxUnits, x \in UnitTerms :
              UpdateListingError(c, l, x[1], n, x[2], x[3]) # ""
        /\ \A l \in ListingIds : CancelListingError(c, l) # ""
        /\ \A l \in ListingIds, n \in 0..MaxUnits, d \in 0..MaxDuration :
              \A v \in PaymentChoices(l, n, d) : StartSessionError(c, l, n, d, v) # ""
        /\ \A s \in SessionIds : EndSessionError(c, s) # ""

\* C21: updatePlatformFee, updatePlatformWallet, updateRentalDurationLimits,
\* setWhitelistedToken, pause, unpause, emergencyStop, withdrawERC20 and
\* withdrawERC1155 called by an account that is not the current owner are
\* rejected as not the owner's, and no step that changes anything is such a
\* call: fee, wallet, limits, whitelist, pause flag and balances stay.
AdminOnlyOwner ==
    /\ [](\A c \in AdminCallers : c # owner =>
            /\ \A f \in FeeChoices : UpdatePlatformFeeError(c, f) # ""
            /\ \A w \in {ZeroAddress, "bob"} : UpdatePlatformWalletError(c, w) # ""
            /\ \A x \in LimitChoices : UpdateRentalDurationLimitsError(c, x[1], x[2]) # ""
            /\ \A k \in ERC1155Contracts, f \in BOOLEAN : SetWhitelistedTokenError(c, k, f) # ""
            /\ PauseError(c) # "" /\ UnpauseError(c) # "" /\ EmergencyStopError(c) # ""
            /\ \A to \in {ZeroAddress, Owner}, a \in 0..1 :
                  /\ WithdrawERC20Error(c, StrayERC20, to, a) # ""
                  /\ \A k \in ERC1155Contracts, t \in TokenIds :
                        WithdrawERC1155Error(c, k, to, t, a) # "")
    /\ [][\/ UNCHANGED vars
          \/ \A c \in AdminCallers \ {owner} :
                /\ \A f \in FeeChoices : ~UpdatePlatformFee(c, f)
                /\ \A w \in {ZeroAddress, "bob"} : ~UpdatePlatformWallet(c, w)
                /\ \A x \in LimitChoices : ~UpdateRentalDurationLimits(c, x[1], x[2])
                /\ \A k \in ERC1155Contracts, f \in BOOLEAN : ~SetWhitelistedToken(c, k, f)
                /\ ~Pause(c) /\ ~Unpause(c) /\ ~EmergencyStop(c)
                /\ \A to \in {ZeroAddress, Owner}, a \in 0..1 :
                      /\ ~WithdrawERC20(c, StrayERC20, to, a)
                      /\ \A k \in ERC1155Contracts, t \in TokenIds :
                            ~WithdrawERC1155(c, k, to, t, a)]_vars

\* Ownership has passed to another account, which has changed the wallet and
\* the limits, paused the engine and recovered a stray asset.
NewOwnerHasActed ==
    /\ owner # Owner
    /\ platformWallet # "owner"
    /\ minRentalDuration # InitialMinRentalDuration
    /\ paused
    /\ foreign[StrayERC20][Escrow] = 0

\* C22: while the subscription token is whitelisted every withdrawERC1155 of
\* it is rejected, the owner's as not withdrawable, and no withdrawERC1155 or
\* withdrawERC20 step changes a balance of a managed unit batch.
RecoveryKeepsEscrow ==
    /\ [](whitelistedTokens[Token] =>
            \A c \in AdminCallers, to \in {ZeroAddress, Owner}, t \in TokenIds, a \in 0..MaxUnits :
                /\ WithdrawERC1155Error(c, Token, to, t, a) # ""
                /\ (c = owner /\ to # ZeroAddress) =>
                       WithdrawERC1155Error(c, Token, to, t, a)
                           = "Cannot withdraw whitelisted tokens")
    /\ [][whitelistedTokens[Token] =>
            \/ UNCHANGED vars
            \/ \A c \in AdminCallers, to \in {ZeroAddress, Owner}, a \in 0..MaxUnits :
                  /\ WithdrawERC20(c, StrayERC20, to, a) => balances' = balances
                  /\ \A k \in ERC1155Contracts, t \in TokenIds :
                        WithdrawERC1155(c, k, to, t, a) => balances' = balances]_vars

\* The owner has recovered the stray ERC1155 asset while the subscription
\* token is whitelisted and the escrow holds listed units.
StrayRecovered ==
    /\ whitelistedTokens[Token]
    /\ foreign[StrayERC1155][Escrow] = 0
    /\ foreign[StrayERC1155][Owner] = 1
    /\ \E l \in ListingIds :
          /\ listings[l].isActive
          /\ balances[Escrow][listings[l].tokenId] > 0

\* C23: updateListing and cancelListing by a caller that is not the listing's
\* lender, or on a listing that is not active, are rejected for that reason
\* and change nothing: no listing, no session, no balance.
OnlyLenderMutates ==
    /\ [](\A c \in Users, l \in ListingIds :
            (listings[l].lender # c \/ ~listings[l].isActive) =>
                /\ CancelListingError(c, l) \in {"Not the lender", "Listing not active"}
                /\ \A n \in 0..MaxUnits, x \in UnitTerms :
                      UpdateListingError(c, l, x[1], n, x[2], x[3])
                          \in {"Not the lender", "Listing not active"})
    /\ [][\/ UNCHANGED vars
          \/ \A c \in Users, l \in ListingIds :
                (listings[l].lender # c \/ ~listings[l].isActive) =>
                    /\ ~CancelListing(c, l)
                    /\ \A n \in 0..MaxUnits, x \in UnitTerms :
                          ~UpdateListing(c, l, x[1], n, x[2], x[3])]_vars

\* An active listing its lender could update and cancel, facing another
\* account that holds units and has approved the engine.
StrangerFacesListing ==
    \E l \in ListingIds, c \in Users :
        /\ listings[l].isActive /\ c # listings[l].lender
        /\ ~paused
        /\ balances[c][listings[l].tokenId] > 0 /\ c \in approved
        /\ CancelListingError(listings[l].lender, l) = ""
        /\ UpdateListingError(listings[l].lender, l, 1, listings[l].totalUnits, 1, 1) = ""
        /\ CancelListingError(c, l) = "Not the lender"

RECURSIVE Count(_, _)
\* How often id occurs in the sequence q.
Count(q, id) == IF q = <<>> THEN 0
                ELSE (IF Head(q) = id THEN 1 ELSE 0) + Count(Tail(q), id)

\* C24: listingCounter and sessionCounter never decrease; a step that creates
\* a listing (a session) raises the counter by one and stores the entity
\* under the new value, which no entity had; every other step, a rejected
\* call included, leaves the counters; the entities are those with ids 1 to
\* the counter, each indexed once, and keep their identity when inactive.
IdsMonotonic ==
    /\ [](/\ \A l \in ListingIds : Exists(l) <=> l <= listingCounter
          /\ \A s \in SessionIds : Started(s) <=> s <= sessionCounter
          /\ \A l \in ListingIds :
                Sum([u \in Users |-> Count(userListings[u], l)], Users)
                    = IF Exists(l) THEN 1 ELSE 0
          /\ \A s \in SessionIds :
                Sum([u \in Users |-> Count(userSessions[u], s)], Users)
                    = IF Started(s) THEN 1 ELSE 0)
    /\ [][/\ listingCounter' \in {listingCounter, listingCounter + 1}
          /\ sessionCounter' \in {sessionCounter, sessionCounter + 1}
          /\ \A l \in ListingIds : Exists(l) =>
                /\ listings'[l].lender = listings[l].lender
                /\ listings'[l].tokenId = listings[l].tokenId
          /\ \A s \in SessionIds : Started(s) =>
                /\ sessions'[s].borrower = sessions[s].borrower
                /\ sessions'[s].listingId = sessions[s].listingId
          /\ (listings' # listings /\ listingCounter' = listingCounter) =>
                \A l \in ListingIds : Exists(l)' = Exists(l)
          /\ (sessions' # sessions /\ sessionCounter' = sessionCounter) =>
                \A s \in SessionIds : Started(s)' = Started(s)]_vars

\* The second listing and the second session were created after the first
\* listing was cancelled and the first session closed.
IdsAfterInactive ==
    /\ listingCounter = 2 /\ sessionCounter = 2
    /\ ~listings[1].isActive /\ listings[2].isActive
    /\ ~sessions[1].isActive /\ sessions[2].isActive
    /\ sessions[2].listingId = 2
    /\ sessions[2].startTime >= sessions[1].endTime

\* C25: a session goes from open to closed and stays closed: its active flag
\* never turns from false to true, and borrower, listingId, units, startTime,
\* endTime and totalPaid are in every later state what they were when the
\* session was created.
SessionLifecycle ==
    [][\A s \in SessionIds : Started(s) =>
        /\ ~sessions[s].isActive => ~sessions'[s].isActive
        /\ sessions'[s].borrower = sessions[s].borrower
        /\ sessions'[s].listingId = sessions[s].listingId
        /\ sessions'[s].units = sessions[s].units
        /\ sessions'[s].startTime = sessions[s].startTime
        /\ sessions'[s].endTime = sessions[s].endTime
        /\ sessions'[s].totalPaid = sessions[s].totalPaid]_vars

\* A session closed in the past, its listing since cancelled, and a later
\* session still open.
ClosedLongAgo ==
    \E s \in SessionIds, o \in SessionIds :
        /\ Closed(s) /\ now > sessions[s].endTime
        /\ ~listings[sessions[s].listingId].isActive
        /\ sessions[o].isActive /\ o > s

\* C26: when pricePerUnit * units * duration does not fit the word,
\* startSession is rejected whatever is paid, the product taken modulo the
\* word size included, and the call changes nothing.
OverflowRejected ==
    /\ [](\A c \in Users, l \in ListingIds, n \in 0..MaxUnits, d \in 0..MaxDuration :
            listings[l].pricePerUnit * n * d > UINT_MAX =>
                \A v \in WordPayments(l, n, d) : StartSessionError(c, l, n, d, v) # "")
    /\ [][\/ UNCHANGED vars
          \/ \A c \in Users, l \in ListingIds, n \in 0..MaxUnits, d \in 0..MaxDuration :
                listings[l].pricePerUnit * n * d > UINT_MAX =>
                    \A v \in WordPayments(l, n, d) : ~StartSession(c, l, n, d, v)]_vars

\* A request the listing can serve whose cost does not fit the word and is
\* nothing within the word: paying nothing would buy it if the product wrapped.
CostWrapsToNothing ==
    \E c \in Users, l \in ListingIds, n \in 1..MaxUnits, d \in 1..MaxDuration :
        /\ listings[l].isActive /\ n <= listings[l].availableUnits
        /\ listings[l].minDuration <= d /\ d <= listings[l].maxDuration
        /\ listings[l].pricePerUnit * n * d > UINT_MAX
        /\ TotalCost(listings[l], n, d) = 0
        /\ StartSessionError(c, l, n, d, 0) = "Panic: overflow"

\* C27: a successful startSession paid with m >= totalCost gives m - totalCost
\* back: whatever m was, the engine's own currency balance is what it was
\* before the call and the borrower is out of totalCost, less what the
\* borrower receives as the lender or as the platform wallet.
ExcessRefunded ==
    [][StartsSession =>
        LET s == sessions'[sessionCounter']
            listing == listings[s.listingId]
            duration == s.endTime - s.startTime
            cost == listing.pricePerUnit * s.units * duration
            fee == (cost * platformFee) \div BASIS_POINTS
        IN  \A m \in PaymentChoices(s.listingId, s.units, duration) :
                StartSession(s.borrower, s.listingId, s.units, duration, m) =>
                    /\ m >= cost
                    /\ eth'[Escrow] = eth[Escrow]
                    /\ eth'[s.borrower] =
                           (eth[s.borrower] - m) + (m - cost)
                           + (IF s.borrower = listing.lender THEN cost - fee ELSE 0)
                           + (IF s.borrower = platformWallet THEN fee ELSE 0)]_vars

\* A borrower that is neither the lender nor the platform wallet has paid for
\* a session, could have attached more than its cost, and is out of the cost
\* alone while the engine holds no currency.
PaidNoMoreThanCost ==
    \E s \in SessionIds :
        /\ Started(s) /\ sessions[s].totalPaid > 0
        /\ sessions[s].borrower # listings[sessions[s].listingId].lender
        /\ sessions[s].borrower # platformWallet
        /\ sessionCounter = 1
        /\ sessions[s].totalPaid < InitialEth
        /\ eth[sessions[s].borrower] = InitialEth - sessions[s].totalPaid
        /\ eth[Escrow] = 0

\* A currency transfer that startSession(c, l, n, d, v) makes would fail: the
\* one to the lender, the fee to the platform wallet, or the refund.
FailingTransfer(c, l, n, d, v) ==
    LET cost == TotalCost(listings[l], n, d) IN
    \/ listings[l].lender \in refusing
    \/ FeeAmount(cost) > 0 /\ platformWallet \in refusing
    \/ v > cost /\ c \in refusing

\* C28: a startSession one of whose currency transfers fails is rejected as
\* a whole: no session, no change of availability, no units and no funds
\* moved.
TransferFailureAborts ==
    /\ [](\A c \in Users, l \in ListingIds, n \in 0..MaxUnits, d \in 0..MaxDuration :
            \A v \in PaymentChoices(l, n, d) :
                FailingTransfer(c, l, n, d, v) => StartSessionError(c, l, n, d, v) # "")
    /\ [][\/ UNCHANGED vars
          \/ \A c \in Users, l \in ListingIds, n \in 0..MaxUnits, d \in 0..MaxDuration :
                \A v \in PaymentChoices(l, n, d) :
                    FailingTransfer(c, l, n, d, v) => ~StartSession(c, l, n, d, v)]_vars

\* A request stopped by nothing but the refund its borrower would not take,
\* the lender and the platform wallet taking their shares.
RefundRefused ==
    \E c \in Users, l \in ListingIds, n \in 1..MaxUnits, d \in 1..MaxDuration :
        /\ c \in refusing /\ listings[l].lender \notin refusing
        /\ platformWallet \notin refusing
        /\ StartSessionError(c, l, n, d, TotalCost(listings[l], n, d) + 1)
               = "Transfer reverted"
        /\ StartSessionError(c, l, n, d, TotalCost(listings[l], n, d)) = ""

\* createListing(t, p, n, mn, mx) asks for what the engine must refuse.
BadOffer(p, n, mn, mx) ==
    \/ n = 0 \/ p = 0 \/ mn > mx
    \/ mn < minRentalDuration \/ mx > maxRentalDuration

\* <<price, units, minDuration, maxDuration>> wrong in one respect only.
EdgeOffers ==
    {<<0, 1, minRentalDuration, maxRentalDuration>>,
     <<1, 0, minRentalDuration, maxRentalDuration>>,
     <<1, 1, maxRentalDuration, minRentalDuration>>,
     <<1, 1, minRentalDuration - 1, maxRentalDuration>>,
     <<1, 1, minRentalDuration, maxRentalDuration + 1>>}

\* C29: a successful createListing(tokenId, price, units, minDuration,
\* maxDuration) moves exactly units of tokenId from the caller to the
\* engine's escrow account, no other balance changing, and records under the
\* next id an active listing with lender = caller and totalUnits =
\* availableUnits = units; with units = 0, price = 0, minDuration >
\* maxDuration, minDuration < minRentalDuration or maxDuration >
\* maxRentalDuration the call is rejected and changes nothing.
CreateListingEffect ==
    /\ [](/\ \A c \in Users, t \in TokenIds, p \in 0..1, n \in 0..MaxUnits,
                mn \in 0..(MaxDuration + 1), mx \in 0..(MaxDuration + 1) :
               BadOffer(p, n, mn, mx) => CreateListingError(c, t, p, n, mn, mx) # ""
          /\ \A x \in EdgeOffers : BadOffer(x[1], x[2], x[3], x[4]))
    /\ [][\/ UNCHANGED vars
          \/ /\ \A c \in Users, t \in TokenIds, x \in EdgeOffers :
                   ~CreateListing(c, t, x[1], x[2], x[3], x[4])
             /\ listingCounter' # listingCounter =>
                   LET l == listingCounter + 1
                       r == listings'[l]
                       c == r.lender
                       t == r.tokenId
                       n == r.totalUnits
                   IN  /\ listingCounter' = l
                       /\ listings[l] = EmptyListing
                       /\ CreateListing(c, t, r.pricePerUnit, n, r.minDuration, r.maxDuration)
                       /\ ~BadOffer(r.pricePerUnit, n, r.minDuration, r.maxDuration)
                       /\ r.isActive /\ c \in Users
                       /\ r.availableUnits = n
                       /\ balances'[c][t] = balances[c][t] - n
                       /\ balances'[Escrow][t] = balances[Escrow][t] + n
                       /\ \A h \in Holders \ {c, Escrow} : balances'[h] = balances[h]
                       /\ \A o \in ListingIds \ {l} : listings'[o] = listings[o]
                       /\ userListings'[c] = Append(userListings[c], l)]_vars

\* A listing holds all its units in escrow on terms that the limits, changed
\* since, no longer allow: the same createListing would now be rejected.
ListedUnderOldLimits ==
    \E l \in ListingIds :
        /\ listings[l].isActive
        /\ listings[l].totalUnits = listings[l].availableUnits
        /\ balances[Escrow][listings[l].tokenId] = listings[l].totalUnits
        /\ balances[listings[l].lender][listings[l].tokenId]
               = InitialUnits(listings[l].lender, listings[l].tokenId) - listings[l].totalUnits
        /\ listings[l].maxDuration > maxRentalDuration
        /\ CreateListingError(listings[l].lender, listings[l].tokenId,
                              listings[l].pricePerUnit, 1, listings[l].minDuration,
                              listings[l].maxDuration) = "Duration exceeds maximum"

\* C30: every session ever created, open or closed, has units > 0 and
\* endTime > startTime, whatever global duration limits the owner has set.
SessionsWellFormed ==
    \A s \in SessionIds : Started(s) =>
        /\ sessions[s].units > 0
        /\ sessions[s].endTime > sessions[s].startTime

\* A session runs for less than the global minimum now in force: it was
\* started on a listing made before the owner raised the limits.
ShorterThanMinimum ==
    \E s \in SessionIds :
        /\ Started(s)
        /\ minRentalDuration # InitialMinRentalDuration
        /\ sessions[s].endTime - sessions[s].startTime < minRentalDuration
        /\ sessions[s].startTime > 0

\* C31: startSession with a duration below the listing's minDuration or above
\* its maxDuration is rejected and changes nothing, and every session that
\* starts lasts between the minDuration and the maxDuration its listing has
\* at that moment.
DurationBounds ==
    /\ [](\A c \in Users, l \in ListingIds, n \in 1..MaxUnits, d \in 0..(MaxDuration + 1) :
            (d < listings[l].minDuration \/ d > listings[l].maxDuration) =>
                \A v \in PaymentChoices(l, n, d) : StartSessionError(c, l, n, d, v) # "")
    /\ [][\/ UNCHANGED vars
          \/ /\ \A c \in Users, l \in ListingIds, n \in 1..MaxUnits,
                   d \in 0..(MaxDuration + 1) :
                  (d < listings[l].minDuration \/ d > listings[l].maxDuration) =>
                      \A v \in PaymentChoices(l, n, d) : ~StartSession(c, l, n, d, v)
             /\ StartsSession =>
                   LET s == sessions'[sessionCounter']
                       listing == listings[s.listingId]
                   IN  /\ listing.minDuration <= s.endTime - s.startTime
                       /\ s.endTime - s.startTime <= listing.maxDuration]_vars

\* A session lasts less than the minimum its listing, still active, asks
\* now: the lender raised the bounds after the session started.
OutsideTodaysBounds ==
    \E s \in SessionIds :
        /\ sessions[s].isActive
        /\ listings[sessions[s].listingId].isActive
        /\ sessions[s].endTime - sessions[s].startTime
               < listings[sessions[s].listingId].minDuration

\* C32: when endSession succeeds on a session whose listing is cancelled, the
\* lender's balance rises by the session's units and the listing's record is
\* left as it is (stated for a borrower that is not the lender).
SessionsOutliveListing ==
    [][\A s \in SessionIds :
        (/\ EndsSession(s)
         /\ ~listings[sessions[s].listingId].isActive
         /\ sessions[s].borrower # listings[sessions[s].listingId].lender) =>
        LET l == sessions[s].listingId
            t == listings[l].tokenId
        IN  /\ listings'[l] = listings[l]
            /\ balances'[listings[l].lender][t]
                   = balances[listings[l].lender][t] + sessions[s].units]_vars

\* C33: in the second definition the borrower's endSession at a time >=
\* endTime succeeds; every closure leaves the session inactive and emits
\* SessionEnded for it, whose completed flag is true exactly when the closing
\* time is >= endTime.
CompletedFlag ==
    /\ [](\A s \in SessionIds :
            (sessions[s].isActive /\ now >= sessions[s].endTime) =>
                EndSessionProratedError(sessions[s].borrower, s) = "")
    /\ [][\A s \in SessionIds : EndsSession(s) =>
            /\ ~sessions'[s].isActive
            /\ emitted'.event = "SessionEnded"
            /\ emitted'.sessionId = s
            /\ emitted'.completed <=> (now >= sessions[s].endTime)]_vars

\* A session was closed at the very moment it was due and reported completed.
ClosedOnTheDot ==
    /\ emitted.event = "SessionEnded"
    /\ emitted.completed
    /\ Closed(emitted.sessionId)
    /\ now = sessions[emitted.sessionId].endTime

\* C34: in the second definition the borrower of an active session can close
\* it at any time before endTime: the call succeeds, the session closes, its
\* units go back to the lender and pricePerUnit*units*(endTime - now), the
\* part not used, is split between platform and lender at the fee rate.
EarlyClosure ==
    /\ [](\A s \in SessionIds :
            (sessions[s].isActive /\ now < sessions[s].endTime) =>
                EndSessionProratedError(sessions[s].borrower, s) = "")
    /\ [][\A s \in SessionIds : (EndsSession(s) /\ now < sessions[s].endTime) =>
            LET listing == listings[sessions[s].listingId]
                unused == listing.pricePerUnit * sessions[s].units
                              * (sessions[s].endTime - now)
                fee == (unused * platformFee) \div 10000
            IN  /\ balances'[listing.lender][listing.tokenId]
                       = balances[listing.lender][listing.tokenId] + sessions[s].units
                /\ eth'[Escrow] = eth[Escrow] - unused
                /\ listing.lender # platformWallet =>
                       /\ eth'[platformWallet] = eth[platformWallet] + fee
                       /\ eth'[listing.lender] = eth[listing.lender] + (unused - fee)]_vars

\* C35: in the second definition endSession never lowers the engine's own
\* currency balance: what startSession sent to the lender and the platform
\* wallet is all the borrower paid, and endSession sends them nothing more.
NoOverPayment ==
    [][\A s \in SessionIds : EndsSession(s) => eth'[Escrow] >= eth[Escrow]]_vars

\* C36: whenever no listing of a batch is active and no session on the batch
\* is open, the engine's escrow balance of the batch is zero.
NoStrandedUnits ==
    \A t \in TokenIds :
        (/\ \A l \in ListingIds : ~(listings[l].isActive /\ listings[l].tokenId = t)
         /\ \A s \in SessionIds :
               ~(sessions[s].isActive /\ listings[sessions[s].listingId].tokenId = t))
        => balances[Escrow][t] = 0

\* C37: when startSession hands the units to the borrower, and the
\* borrower's callback can run, the lender and the platform have been paid,
\* the excess refunded, the listing's availableUnits lowered and the session
\* recorded as active; the session stays so while the callback runs.
CustodyMovesLast ==
    /\ [](frame.op = "startSession" =>
            /\ entered
            /\ sessions[frame.sessionId].isActive
            /\ sessions[frame.sessionId].borrower = frame.recipient)
    /\ [][(frame.op = "none" /\ frame'.op = "startSession") =>
            LET s == sessions'[frame'.sessionId]
                l == frame'.listingId
                c == frame'.recipient
                cost == listings[l].pricePerUnit * s.units * (s.endTime - s.startTime)
                fee == (cost * platformFee) \div BASIS_POINTS
            IN  /\ s.isActive /\ s.borrower = c /\ s.listingId = l /\ s.units > 0
                /\ balances'[c][listings[l].tokenId]
                       = balances[c][listings[l].tokenId] + s.units
                /\ listings'[l].availableUnits = listings[l].availableUnits - s.units
                /\ eth'[Escrow] = eth[Escrow]
                /\ \A a \in Holders \ {Escrow} :
                     eth'[a] - eth[a] = (IF a = platformWallet THEN fee ELSE 0)
                                        + (IF a = listings[l].lender THEN cost - fee ELSE 0)
                                        - (IF a = c THEN cost ELSE 0)]_vars

\* The borrower's callback is running: it holds the units of a session that
\* is not yet in its index, and the lender has the money.
CallbackAfterPayment ==
    /\ frame.op = "startSession"
    /\ frame.recipient # listings[frame.listingId].lender
    /\ balances[frame.recipient][listings[frame.listingId].tokenId]
           >= sessions[frame.sessionId].units
    /\ Count(userSessions[frame.recipient], frame.sessionId) = 0
    /\ eth[listings[frame.listingId].lender] > InitialEth

\* C38: a listing whose active flag has become false never becomes active
\* again; every startSession and every updateListing that names it is
\* rejected, and no session is added to those that reference it.
CancellationPermanent ==
    /\ [](\A l \in ListingIds : (Exists(l) /\ ~listings[l].isActive) =>
            /\ \A c \in Users, n \in 0..MaxUnits, d \in 0..MaxDuration :
                  \A v \in PaymentChoices(l, n, d) : StartSessionError(c, l, n, d, v) # ""
            /\ \A c \in Users, n \in 0..MaxUnits, x \in UnitTerms :
                  UpdateListingError(c, l, x[1], n, x[2], x[3]) # "")
    /\ [][\A l \in ListingIds : (Exists(l) /\ ~listings[l].isActive) =>
            /\ ~listings'[l].isActive
            /\ listings'[l].lender = listings[l].lender
            /\ \A s \in SessionIds :
                  sessions'[s].listingId = l => sessions[s].listingId = l]_vars

\* A cancelled listing that a session references, and a later listing of
\* the same lender that is active and has a session of its own.
CancelledAndRelisted ==
    \E l \in ListingIds, m \in ListingIds, s \in SessionIds, o \in SessionIds :
        /\ Exists(l) /\ ~listings[l].isActive
        /\ m > l /\ listings[m].isActive /\ listings[m].lender = listings[l].lender
        /\ Started(s) /\ sessions[s].listingId = l
        /\ Started(o) /\ sessions[o].listingId = m

\* C39: every session that starts lasts between the minRentalDuration and
\* the maxRentalDuration in force at that moment, also when the owner has
\* changed them since the listing was created.
GlobalLimitsBind ==
    [][StartsSession =>
        LET s == sessions'[sessionCounter'] IN
        /\ minRentalDuration <= s.endTime - s.startTime
        /\ s.endTime - s.startTime <= maxRentalDuration]_vars
====
